---- MODULE Spec2Model ----
(***************************************************************************)
(* Verification development for the ToogaBooga verification manager:       *)
(* the requirement evaluator (checkRequirements), the verification         *)
(* sessions (verify, verifyMain, verifySection), the manual-review         *)
(* prompt and queue (handleManualVerificationCase,                         *)
(* sendManualVerifyEmbedAndLog, acknowledgeManualVerifyRes).               *)
(***************************************************************************)
EXTENDS Integers, Sequences, FiniteSets, Bags, TLC

VARIABLES
    evalInput,      \* arguments of one checkRequirements call
    evalResult,     \* the IReqCheckResult it returned (conclusion "NONE" before the call)
    lastCheck,      \* what the profile check completed by the last step found
    sessions,       \* bag of the verification sessions now alive (closures of verify*)
    lastEnded,      \* the session the last step ended, with its result
    manualVerificationEntries, \* guildDoc.manualVerificationEntries (durable)
    queueMsgs,      \* ids of the messages now in the manual verification channel
    nextMsgId,      \* id the next posted message receives
    roles,          \* verified roles added: set of <<member, section>>
    idNames,        \* id-name collection: names registered per Discord id
    present,        \* members currently in the guild
    sectionExists,  \* guildDoc.guildSections contains the section
    roleExists,     \* the section's verified role exists in the guild
    checkReqFlag,   \* verificationProperties.checkRequirements per section
    manualChannel,  \* the section's manual verification channel is cached
    acks,           \* calls of acknowledgeManualVerifyRes in flight
    notices,        \* accept/deny results sent to members: <<manualVerifyMsgId, kind>>
    lastAck,        \* the call of acknowledgeManualVerifyRes that returned in the last step
    loggedInfoDb,   \* loggedInfo of the member's user document, as stored
    logCalls,       \* bag of the LoggerManager calls in flight
    loggedTotal,    \* per key, the amounts the log calls made so far were given
    ACTIVE_USERS,   \* ConfigureReactionsImages.ACTIVE_USERS of the guild
    guildDocDb,     \* approvedCustomImages and customReactions of the guild document, as stored
    flows           \* per user, the ConfigureReactionsImages flow they are in

evalVars == <<evalInput, evalResult, lastCheck>>
guildVars == <<present, sectionExists, roleExists, checkReqFlag, manualChannel>>
worldVars == <<sessions, lastEnded, manualVerificationEntries, queueMsgs, nextMsgId, roles, idNames,
               present, sectionExists, roleExists, checkReqFlag, manualChannel, acks, notices,
               lastAck, loggedInfoDb, logCalls, loggedTotal, ACTIVE_USERS, guildDocDb, flows>>
loggerVars == <<loggedInfoDb, logCalls, loggedTotal>>
configVars == <<ACTIVE_USERS, guildDocDb, flows>>
auxVars == <<loggerVars, configVars>>
vars == <<evalInput, evalResult, lastCheck, sessions, lastEnded, manualVerificationEntries, queueMsgs, nextMsgId,
          roles, idNames, present, sectionExists, roleExists, checkReqFlag, manualChannel,
          acks, notices, lastAck, loggedInfoDb, logCalls, loggedTotal, ACTIVE_USERS, guildDocDb,
          flows>>

-----------------------------------------------------------------------------
(* Constants of VerifyManager.                                             *)

NUMBER_OF_STATS == 8

GUILD_ROLES == <<"Founder", "Leader", "Officer", "Member", "Initiate">>

ShortStats == {"att", "def", "spd", "dex", "vit", "wis", "hp", "mp"}

LongStats == {"attack", "defense", "speed", "dexterity", "vitality", "wisdom", "health", "magic"}

LONG_STAT_TO_SHORT ==
    [l \in LongStats |->
        CASE l = "attack" -> "att"
          [] l = "defense" -> "def"
          [] l = "speed" -> "spd"
          [] l = "dexterity" -> "dex"
          [] l = "vitality" -> "vit"
          [] l = "wisdom" -> "wis"
          [] l = "health" -> "hp"
          [] l = "magic" -> "mp"]

\* The entries of DISPLAY_TO_GY_HIST used by the bounded inputs.
DisplayNames == {"Lost Halls", "Nests", "Shatters"}

DISPLAY_TO_GY_HIST ==
    [d \in DisplayNames |->
        CASE d = "Lost Halls" -> "Lost Halls completed"
          [] d = "Nests" -> "Nests completed2"
          [] d = "Shatters" -> "Shatters completed1"]

\* String.prototype.toLowerCase on the guild and player names of the bounded inputs.
toLowerCase(s) ==
    CASE s = "Alpha" -> "alpha"
      [] s = "ALPHA" -> "alpha"
      [] s = "Beta" -> "beta"
      [] s = "Alice" -> "alice"
      [] s = "Bob" -> "bob"
      [] OTHER -> s

-----------------------------------------------------------------------------
(* isValidGuildRank(minNeeded, actual)                                     *)

\* Array.prototype.indexOf on GUILD_ROLES, 0-based, -1 when absent.
IndexOfRole(r) ==
    IF \E i \in DOMAIN GUILD_ROLES : GUILD_ROLES[i] = r
    THEN (CHOOSE i \in DOMAIN GUILD_ROLES : GUILD_ROLES[i] = r) - 1
    ELSE -1

\* The same with the scan going from the floor to the end of GUILD_ROLES.
isValidGuildRankScanDown(minNeeded, actual) ==
    IF minNeeded = actual THEN TRUE
    ELSE LET idx == IndexOfRole(minNeeded)
         IN IF idx = -1 THEN FALSE
            ELSE \E i \in idx..(Len(GUILD_ROLES) - 1) : GUILD_ROLES[i + 1] = actual

isValidGuildRank(minNeeded, actual) ==
    IF minNeeded = actual THEN TRUE
    ELSE LET idx == IndexOfRole(minNeeded)
         IN IF idx = -1 THEN FALSE
            ELSE \E i \in 0..idx : GUILD_ROLES[i + 1] = actual

-----------------------------------------------------------------------------
(* checkRequirements, block by block.  An issue is [key, detail]; detail   *)
(* holds the numbers the message lists.                                    *)

\* The sum of f over the keys in S.
RECURSIVE SumOver(_, _)
SumOver(f, S) ==
    IF S = {} THEN 0
    ELSE LET x == CHOOSE y \in S : TRUE
         IN f[x] + SumOver(f, S \ {x})

Issue(k, d) == [key |-> k, detail |-> d]

\* lookups is not a field of IReqCheckResult: it records which of the three
\* auxiliary lookups the call awaited before it returned.
NoResult == [conclusion |-> "NONE", manualIssues |-> <<>>, fatalIssues |-> <<>>, taIssues |-> <<>>,
             lookups |-> {}]

\* The last-seen block with the test turned round.
LastSeenIssuesWhenHidden(verifReq, resp) ==
    IF verifReq.lastSeen.mustBeHidden /\ resp.lastSeen = "hidden"
    THEN <<Issue("Last Seen Location is Not Private", <<>>)>>
    ELSE <<>>

\* lines 1764-1770
LastSeenIssues(verifReq, resp) ==
    IF verifReq.lastSeen.mustBeHidden /\ resp.lastSeen # "hidden"
    THEN <<Issue("Last Seen Location is Not Private", <<>>)>>
    ELSE <<>>

\* lines 1773-1824: the fatal issue of the guild block, <<>> when none.
GuildFatal(verifReq, resp) ==
    IF ~verifReq.guild.checkThis THEN <<>>
    ELSE IF verifReq.guild.guildName.checkThis
            /\ toLowerCase(resp.guild) # toLowerCase(verifReq.guild.guildName.name)
         THEN <<Issue("Not In Correct Guild", <<>>)>>
         ELSE IF ~verifReq.guild.guildRank.checkThis THEN <<>>
              ELSE IF verifReq.guild.guildRank.exact
                   THEN IF verifReq.guild.guildRank.minRank # resp.guildRank
                        THEN <<Issue("Not In Correct Guild", <<>>)>>
                        ELSE <<>>
                   ELSE IF ~isValidGuildRank(verifReq.guild.guildRank.minRank, resp.guildRank)
                        THEN <<Issue("Invalid Guild Rank", <<>>)>>
                        ELSE <<>>

\* The rank block with nothing raised.
RankIssuesIgnored(verifReq, resp) == <<>>

\* lines 1827-1833
RankIssues(verifReq, resp) ==
    IF verifReq.rank.checkThis /\ resp.rank < verifReq.rank.minRank
    THEN <<Issue("Rank Too Low", <<resp.rank, verifReq.rank.minRank>>)>>
    ELSE <<>>

\* lines 1836-1843
FameIssues(verifReq, resp) ==
    IF verifReq.aliveFame.checkThis /\ resp.fame < verifReq.aliveFame.minFame
    THEN <<Issue("Alive Fame Too Low", <<resp.fame, verifReq.aliveFame.minFame>>)>>
    ELSE <<>>

\* lines 1858-1870 and 1877-1887: a character of tier `tier` (amt of them) is
\* taken off its own tier if that still needs some, else off the first lower
\* tier, scanning from tier-1 down to 0, that still needs some.
Needs(neededStats, t) == (t + 1) \in DOMAIN neededStats /\ neededStats[t + 1] > 0

\* The same with a tier counted for itself only.
CascadeTierOwnOnly(neededStats, tier, amt) ==
    IF Needs(neededStats, tier)
    THEN [neededStats EXCEPT ![tier + 1] = @ - amt]
    ELSE neededStats

\* The same with the scan also going up from the tier when nothing below needs.
CascadeTierUpward(neededStats, tier, amt) ==
    IF Needs(neededStats, tier)
    THEN [neededStats EXCEPT ![tier + 1] = @ - amt]
    ELSE LET other == {j \in 0..(NUMBER_OF_STATS - 1) : j # tier /\ Needs(neededStats, j)}
         IN IF other = {} THEN neededStats
            ELSE LET j == CHOOSE x \in other : \A y \in other : y <= x
                 IN [neededStats EXCEPT ![j + 1] = @ - amt]

\* The same with the scan below the tier going up from tier 0.
CascadeTierLowestFirst(neededStats, tier, amt) ==
    IF Needs(neededStats, tier)
    THEN [neededStats EXCEPT ![tier + 1] = @ - amt]
    ELSE LET lower == {j \in 0..(tier - 1) : Needs(neededStats, j)}
         IN IF lower = {} THEN neededStats
            ELSE LET j == CHOOSE x \in lower : \A y \in lower : x <= y
                 IN [neededStats EXCEPT ![j + 1] = @ - amt]

CascadeTier(neededStats, tier, amt) ==
    IF Needs(neededStats, tier)
    THEN [neededStats EXCEPT ![tier + 1] = @ - amt]
    ELSE LET lower == {j \in 0..(tier - 1) : Needs(neededStats, j)}
         IN IF lower = {} THEN neededStats
            ELSE LET j == CHOOSE x \in lower : \A y \in lower : y <= x
                 IN [neededStats EXCEPT ![j + 1] = @ - amt]

\* lines 1857-1871: one class's graveyard stat array, index i from 0.
RECURSIVE ApplyStatInfo(_, _, _)
ApplyStatInfo(neededStats, statInfo, i) ==
    IF i >= Len(statInfo) THEN neededStats
    ELSE ApplyStatInfo(CascadeTier(neededStats, i, statInfo[i + 1]), statInfo, i + 1)

\* lines 1854-1873
RECURSIVE ApplyPastDeaths(_, _)
ApplyPastDeaths(neededStats, stats) ==
    IF stats = <<>> THEN neededStats
    ELSE ApplyPastDeaths(ApplyStatInfo(neededStats, Head(stats), 0), Tail(stats))

\* lines 1876-1888: characters is the sequence of statsMaxed values.
RECURSIVE ApplyCharacters(_, _)
ApplyCharacters(neededStats, characters) ==
    IF characters = <<>> THEN neededStats
    ELSE IF Head(characters) = -1
         THEN ApplyCharacters(neededStats, Tail(characters))
         ELSE ApplyCharacters(CascadeTier(neededStats, Head(characters), 1), Tail(characters))

\* The same with the live characters left uncounted when the past deaths are
\* asked for and the summary is unavailable.
RemainingStatsNeedsSummary(verifReq, resp, gyHist) ==
    IF verifReq.characters.checkPastDeaths /\ ~gyHist.ok
    THEN verifReq.characters.statsNeeded
    ELSE ApplyCharacters(IF verifReq.characters.checkPastDeaths
                         THEN ApplyPastDeaths(verifReq.characters.statsNeeded,
                                              gyHist.statsCharacters)
                         ELSE verifReq.characters.statsNeeded,
                         resp.characters)

\* lines 1847-1888: the needed counts left after past deaths and live characters.
RemainingStats(verifReq, resp, gyHist) ==
    LET afterDeaths == IF verifReq.characters.checkPastDeaths /\ gyHist.ok
                       THEN ApplyPastDeaths(verifReq.characters.statsNeeded, gyHist.statsCharacters)
                       ELSE verifReq.characters.statsNeeded
    IN ApplyCharacters(afterDeaths, resp.characters)

\* lines 1847-1905
CharacterIssues(verifReq, resp, gyHist) ==
    IF ~verifReq.characters.checkThis THEN <<>>
    ELSE LET neededStats == RemainingStats(verifReq, resp, gyHist)
         IN IF \E i \in DOMAIN neededStats : neededStats[i] > 0
            THEN <<Issue("Stats Requirement Not Fulfilled",
                         [i \in DOMAIN neededStats |->
                             IF neededStats[i] > 0 THEN neededStats[i] ELSE 0])>>
            ELSE <<>>

\* DungeonUtilities.getDungeonInfo: the dungeons the guild knows.
KnownDungeons == {"LOST_HALLS", "SHATTERS"}

\* lines 1910-1951: logged-counter mode.  completionsNeeded and loggedInfo are
\* the two collections (dungeon id -> amount); only logged dungeons are visited.
BotCompletionUnmet(completionsNeeded, loggedInfo) ==
    {d \in DOMAIN loggedInfo :
        /\ d \in KnownDungeons
        /\ d \in DOMAIN completionsNeeded
        /\ completionsNeeded[d] - loggedInfo[d] > 0}

\* lines 1962-1980: external-history mode, the targets that raise an issue line.
RealmEyeUnmet(realmEyeCompletions, gyHist) ==
    {i \in DOMAIN realmEyeCompletions :
        LET gyStat == realmEyeCompletions[i]
        IN /\ gyStat.key \in DOMAIN DISPLAY_TO_GY_HIST
           /\ LET gyHistKey == DISPLAY_TO_GY_HIST[gyStat.key]
              IN IF gyHistKey \in DOMAIN gyHist.properties
                 THEN gyStat.value > gyHist.properties[gyHistKey]
                 ELSE TRUE}

\* lines 1907-1993: <<taIssues, manualIssues>> of the graveyard block.
GraveyardIssues(verifReq, gyHist, loggedInfo) ==
    IF ~verifReq.graveyardSummary.checkThis THEN <<<<>>, <<>>>>
    ELSE IF verifReq.graveyardSummary.useBotCompletions
         THEN LET unmet == BotCompletionUnmet(verifReq.graveyardSummary.botCompletions, loggedInfo)
              IN IF unmet # {}
                 THEN <<<<>>, <<Issue("Dungeon Completion Requirement Not Fulfilled",
                                      <<Cardinality(unmet)>>)>>>>
                 ELSE <<<<>>, <<>>>>
         ELSE IF ~gyHist.ok
              THEN <<<<Issue("Graveyard History Private", <<>>)>>, <<>>>>
              ELSE LET unmet == RealmEyeUnmet(verifReq.graveyardSummary.realmEyeCompletions, gyHist)
                   IN IF unmet # {}
                      THEN <<<<>>, <<Issue("Dungeon Completion Requirement Not Fulfilled",
                                           <<Cardinality(unmet)>>)>>>>
                      ELSE <<<<>>, <<>>>>

\* lines 2008-2010
NeededExalt(verifReq) == [d \in ShortStats |-> verifReq.exaltations.minimum[d]]

\* lines 2013-2037: some single entry leaves no stat short.
EntryPasses(neededExalt, entry) ==
    \A longStat \in DOMAIN entry :
        ~(neededExalt[LONG_STAT_TO_SHORT[longStat]] - entry[longStat] > 0)

\* lines 2040-2048: what is left of a stat after every entry is subtracted.
RECURSIVE SubtractAll(_, _, _)
SubtractAll(n, exaltations, short) ==
    IF exaltations = <<>> THEN n
    ELSE LET entry == Head(exaltations)
             longs == {l \in DOMAIN entry : LONG_STAT_TO_SHORT[l] = short}
             amt == IF longs = {} THEN 0 ELSE entry[CHOOSE l \in longs : TRUE]
         IN SubtractAll(n - amt, Tail(exaltations), short)

\* The same with the entries always added up, onOneChar or not.
RemainingExaltCombined(verifReq, exaltData) ==
    [d \in ShortStats |-> SubtractAll(NeededExalt(verifReq)[d], exaltData.exaltations, d)]

\* lines 2012-2049: neededExalt after the loop of the selected mode.
RemainingExalt(verifReq, exaltData) ==
    LET neededExalt == NeededExalt(verifReq)
    IN IF verifReq.exaltations.onOneChar
       THEN IF \E i \in DOMAIN exaltData.exaltations :
                    EntryPasses(neededExalt, exaltData.exaltations[i])
            THEN [d \in ShortStats |-> 0]
            ELSE neededExalt
       ELSE [d \in ShortStats |-> SubtractAll(neededExalt[d], exaltData.exaltations, d)]

\* The same with unavailable exaltation data taken for data without entries.
ExaltationIssuesUnavailableIsEmpty(verifReq, exaltData) ==
    IF ~verifReq.exaltations.checkThis THEN <<<<>>, <<>>>>
    ELSE LET left == RemainingExalt(verifReq, [exaltData EXCEPT !.ok = TRUE])
             notMetExaltations == {d \in ShortStats : left[d] > 0}
         IN IF notMetExaltations # {}
            THEN <<<<>>, <<Issue("Exaltation Requirement Not Satisfied",
                                 <<Cardinality(notMetExaltations)>>)>>>>
            ELSE <<<<>>, <<>>>>

\* lines 1995-2079: <<taIssues, manualIssues>> of the exaltation block.
ExaltationIssues(verifReq, exaltData) ==
    IF ~verifReq.exaltations.checkThis THEN <<<<>>, <<>>>>
    ELSE IF ~exaltData.ok
         THEN <<<<Issue("Exaltation Information Private", <<>>)>>, <<>>>>
         ELSE LET left == RemainingExalt(verifReq, exaltData)
                  notMetExaltations == {d \in ShortStats : left[d] > 0}
              IN IF notMetExaltations # {}
                 THEN <<<<>>, <<Issue("Exaltation Requirement Not Satisfied",
                                      <<Cardinality(notMetExaltations)>>)>>>>
                 ELSE <<<<>>, <<>>>>

\* lines 1845, 1914 and 1996: the lookups awaited by a call that gets past the
\* guild block.  The graveyard summary is asked for on every such call.
Lookups(verifReq) ==
    {"getGraveyardSummary"}
    \cup (IF verifReq.graveyardSummary.checkThis /\ verifReq.graveyardSummary.useBotCompletions
          THEN {"getUserDoc"} ELSE {})
    \cup (IF verifReq.exaltations.checkThis THEN {"getExaltation"} ELSE {})

ConcludeManualFirst(fatalIssues, taIssues, manualIssues) ==
    IF Len(fatalIssues) > 0 THEN "FAIL"
    ELSE IF Len(manualIssues) > 0 THEN "MANUAL"
    ELSE IF Len(taIssues) > 0 THEN "TRY_AGAIN"
    ELSE "PASS"

\* lines 2081-2089
Conclude(fatalIssues, taIssues, manualIssues) ==
    IF Len(fatalIssues) > 0 THEN "FAIL"
    ELSE IF Len(taIssues) > 0 THEN "TRY_AGAIN"
    ELSE IF Len(manualIssues) > 0 THEN "MANUAL"
    ELSE "PASS"

DowngradeNever(conclusion, hasManualChannel) == conclusion

\* lines 2091-2096
Downgrade(conclusion, hasManualChannel) ==
    IF conclusion = "MANUAL" /\ ~hasManualChannel THEN "FAIL" ELSE conclusion

checkRequirementsNoShortCircuit(in) ==
    LET ta1 == LastSeenIssues(in.verifReq, in.resp)
        fatal == GuildFatal(in.verifReq, in.resp)
        gy == GraveyardIssues(in.verifReq, in.gyHist, in.loggedInfo)
        ex == ExaltationIssues(in.verifReq, in.exaltData)
        manualIssues == RankIssues(in.verifReq, in.resp)
                        \o FameIssues(in.verifReq, in.resp)
                        \o CharacterIssues(in.verifReq, in.resp, in.gyHist)
                        \o gy[2] \o ex[2]
        taIssues == ta1 \o gy[1] \o ex[1]
    IN [conclusion |-> Downgrade(Conclude(fatal, taIssues, manualIssues), in.hasManualChannel),
        manualIssues |-> manualIssues,
        fatalIssues |-> fatal,
        taIssues |-> taIssues,
        lookups |-> Lookups(in.verifReq)]

\* lines 1747-2099.  in = [verifReq, resp, gyHist, loggedInfo, exaltData,
\* hasManualChannel]: the section's requirements, the player data, the results
\* of the three lookups and whether the manual verification channel is cached.
checkRequirements(in) ==
    LET ta1 == LastSeenIssues(in.verifReq, in.resp)
        fatal == GuildFatal(in.verifReq, in.resp)
    IN IF fatal # <<>>
       THEN [conclusion |-> "FAIL", manualIssues |-> <<>>, fatalIssues |-> fatal,
             taIssues |-> ta1, lookups |-> {}]
       ELSE LET gy == GraveyardIssues(in.verifReq, in.gyHist, in.loggedInfo)
                ex == ExaltationIssues(in.verifReq, in.exaltData)
                manualIssues == RankIssues(in.verifReq, in.resp)
                                \o FameIssues(in.verifReq, in.resp)
                                \o CharacterIssues(in.verifReq, in.resp, in.gyHist)
                                \o gy[2] \o ex[2]
                taIssues == ta1 \o gy[1] \o ex[1]
            IN [conclusion |-> Downgrade(Conclude(<<>>, taIssues, manualIssues),
                                         in.hasManualChannel),
                manualIssues |-> manualIssues,
                fatalIssues |-> <<>>,
                taIssues |-> taIssues,
                lookups |-> Lookups(in.verifReq)]

-----------------------------------------------------------------------------
(* Bounded inputs of checkRequirements.  Each block of the function gets a *)
(* few cases (disabled, met, not met, source unavailable); an input is one *)
(* case per block.                                                         *)

NeededAt(t, n) == [i \in 1..NUMBER_OF_STATS |-> IF i = t + 1 THEN n ELSE 0]

ZeroExalt == [d \in ShortStats |-> 0]
ZeroEntry == [l \in LongStats |-> 0]

GyUnavailable == [ok |-> FALSE, statsCharacters |-> <<>>, properties |-> <<>>]
GyEmpty == [ok |-> TRUE, statsCharacters |-> <<>>, properties |-> <<>>]
ExUnavailable == [ok |-> FALSE, exaltations |-> <<>>]

LastSeenCases ==
    {[mustBeHidden |-> FALSE, lastSeen |-> "visible"],
     [mustBeHidden |-> TRUE, lastSeen |-> "visible"],
     [mustBeHidden |-> TRUE, lastSeen |-> "hidden"]}

GuildReqs ==
    {[checkThis |-> FALSE,
      guildName |-> [checkThis |-> TRUE, name |-> "Alpha"],
      guildRank |-> [checkThis |-> TRUE, minRank |-> "Officer", exact |-> FALSE]]}
    \cup
    {[checkThis |-> TRUE,
      guildName |-> [checkThis |-> n, name |-> "Alpha"],
      guildRank |-> [checkThis |-> r, minRank |-> "Officer", exact |-> e]] :
        n \in BOOLEAN, r \in BOOLEAN, e \in BOOLEAN}

RespGuilds == {"", "ALPHA", "Beta"}
RespGuildRanks == {"Leader", "Officer", "Member"}

RankCases ==
    {[checkThis |-> FALSE, minRank |-> 10, rank |-> 5],
     [checkThis |-> TRUE, minRank |-> 10, rank |-> 5],
     [checkThis |-> TRUE, minRank |-> 10, rank |-> 10]}

FameCases ==
    {[checkThis |-> TRUE, minFame |-> 100, fame |-> 50],
     [checkThis |-> TRUE, minFame |-> 100, fame |-> 100]}

CharacterCases ==
    {[checkThis |-> FALSE, statsNeeded |-> NeededAt(2, 1), checkPastDeaths |-> FALSE,
      characters |-> <<>>],
     [checkThis |-> TRUE, statsNeeded |-> NeededAt(2, 1), checkPastDeaths |-> FALSE,
      characters |-> <<3>>],
     [checkThis |-> TRUE, statsNeeded |-> NeededAt(1, 1), checkPastDeaths |-> TRUE,
      characters |-> <<-1, 0>>],
     [checkThis |-> TRUE, statsNeeded |-> NeededAt(0, 2), checkPastDeaths |-> FALSE,
      characters |-> <<-1, 2>>]}

GraveyardCases ==
    {[checkThis |-> FALSE, useBotCompletions |-> FALSE,
      botCompletions |-> <<>>, realmEyeCompletions |-> <<>>,
      gyHist |-> GyEmpty, loggedInfo |-> <<>>],
     [checkThis |-> TRUE, useBotCompletions |-> FALSE,
      botCompletions |-> <<>>, realmEyeCompletions |-> <<[key |-> "Nests", value |-> 1]>>,
      gyHist |-> GyUnavailable, loggedInfo |-> <<>>],
     [checkThis |-> TRUE, useBotCompletions |-> TRUE,
      botCompletions |-> [d \in {"SHATTERS"} |-> 2], realmEyeCompletions |-> <<>>,
      gyHist |-> GyEmpty, loggedInfo |-> [d \in {"SHATTERS"} |-> 1]]}

ExaltationCases ==
    {[checkThis |-> FALSE, minimum |-> ZeroExalt, onOneChar |-> FALSE, exaltData |-> ExUnavailable],
     [checkThis |-> TRUE, minimum |-> [ZeroExalt EXCEPT !["att"] = 5], onOneChar |-> FALSE,
      exaltData |-> ExUnavailable],
     [checkThis |-> TRUE, minimum |-> [ZeroExalt EXCEPT !["att"] = 5, !["def"] = 5],
      onOneChar |-> TRUE,
      exaltData |-> [ok |-> TRUE,
                     exaltations |-> <<[ZeroEntry EXCEPT !["attack"] = 5],
                                       [ZeroEntry EXCEPT !["defense"] = 5]>>]]}

MakeInput(ls, g, rg, rgr, rk, fm, ch, gy, ex, chan) ==
    [verifReq |->
        [lastSeen |-> [mustBeHidden |-> ls.mustBeHidden],
         guild |-> g,
         rank |-> [checkThis |-> rk.checkThis, minRank |-> rk.minRank],
         aliveFame |-> [checkThis |-> fm.checkThis, minFame |-> fm.minFame],
         characters |-> [checkThis |-> ch.checkThis, statsNeeded |-> ch.statsNeeded,
                         checkPastDeaths |-> ch.checkPastDeaths],
         exaltations |-> [checkThis |-> ex.checkThis, minimum |-> ex.minimum,
                          onOneChar |-> ex.onOneChar],
         graveyardSummary |-> [checkThis |-> gy.checkThis,
                               useBotCompletions |-> gy.useBotCompletions,
                               botCompletions |-> gy.botCompletions,
                               realmEyeCompletions |-> gy.realmEyeCompletions]],
     resp |-> [lastSeen |-> ls.lastSeen, guild |-> rg, guildRank |-> rgr,
               rank |-> rk.rank, fame |-> fm.fame, characters |-> ch.characters],
     gyHist |-> gy.gyHist,
     loggedInfo |-> gy.loggedInfo,
     exaltData |-> ex.exaltData,
     hasManualChannel |-> chan]

EvalInputs ==
    {MakeInput(ls, g, rg, rgr, rk, fm, ch, gy, ex, chan) :
        ls \in LastSeenCases, g \in GuildReqs, rg \in RespGuilds, rgr \in RespGuildRanks,
        rk \in RankCases, fm \in FameCases, ch \in CharacterCases, gy \in GraveyardCases,
        ex \in ExaltationCases, chan \in BOOLEAN}

\* An input on which nothing is required.
NoRequirementsInput ==
    MakeInput([mustBeHidden |-> FALSE, lastSeen |-> "visible"],
              CHOOSE g \in GuildReqs : ~g.checkThis, "", "Member",
              CHOOSE rk \in RankCases : ~rk.checkThis,
              [checkThis |-> FALSE, minFame |-> 0, fame |-> 0],
              CHOOSE ch \in CharacterCases : ~ch.checkThis,
              CHOOSE gy \in GraveyardCases : ~gy.checkThis,
              CHOOSE ex \in ExaltationCases : ~ex.checkThis,
              TRUE)

-----------------------------------------------------------------------------
(* A second family of inputs of checkRequirements, for the blocks taken    *)
(* one by one: more cases of the character, graveyard and exaltation       *)
(* blocks over a guild block that is off or checks the name only, and the  *)
(* guild-rank block over every pair of ranks.                              *)

\* One class of the graveyard summary with n dead characters of tier t.
DeadAt(t, n) == [i \in 1..(NUMBER_OF_STATS + 1) |-> IF i = t + 1 THEN n ELSE 0]

GyWith(stats, props) == [ok |-> TRUE, statsCharacters |-> stats, properties |-> props]

GuildDetailReqs ==
    {g \in GuildReqs : ~g.checkThis \/ (g.guildName.checkThis /\ ~g.guildRank.checkThis)}

RespDetailGuilds == {"ALPHA", "Beta"}

CharacterDetailCases ==
    {[checkThis |-> FALSE, statsNeeded |-> NeededAt(1, 1), checkPastDeaths |-> TRUE,
      characters |-> <<>>],
     [checkThis |-> TRUE, statsNeeded |-> NeededAt(1, 1), checkPastDeaths |-> FALSE,
      characters |-> <<0>>],
     [checkThis |-> TRUE, statsNeeded |-> NeededAt(1, 1), checkPastDeaths |-> TRUE,
      characters |-> <<-1>>],
     [checkThis |-> TRUE, statsNeeded |-> NeededAt(2, 1), checkPastDeaths |-> FALSE,
      characters |-> <<3>>],
     [checkThis |-> TRUE, statsNeeded |-> [NeededAt(0, 1) EXCEPT ![4] = 2],
      checkPastDeaths |-> TRUE, characters |-> <<2, -1>>]}

GraveyardDetailCases ==
    {[checkThis |-> FALSE, useBotCompletions |-> FALSE,
      botCompletions |-> <<>>, realmEyeCompletions |-> <<>>,
      gyHist |-> GyWith(<<DeadAt(0, 2)>>, <<>>), loggedInfo |-> <<>>],
     [checkThis |-> FALSE, useBotCompletions |-> FALSE,
      botCompletions |-> <<>>, realmEyeCompletions |-> <<>>,
      gyHist |-> GyUnavailable, loggedInfo |-> <<>>],
     [checkThis |-> TRUE, useBotCompletions |-> FALSE,
      botCompletions |-> <<>>, realmEyeCompletions |-> <<[key |-> "Nests", value |-> 1]>>,
      gyHist |-> GyUnavailable, loggedInfo |-> <<>>],
     [checkThis |-> TRUE, useBotCompletions |-> FALSE,
      botCompletions |-> <<>>, realmEyeCompletions |-> <<[key |-> "Nests", value |-> 1]>>,
      gyHist |-> GyWith(<<DeadAt(2, 1), DeadAt(0, 1)>>, [a \in {"Nests completed2"} |-> 1]),
      loggedInfo |-> <<>>],
     [checkThis |-> TRUE, useBotCompletions |-> FALSE,
      botCompletions |-> <<>>, realmEyeCompletions |-> <<[key |-> "Nests", value |-> 2]>>,
      gyHist |-> GyWith(<<>>, [a \in {"Nests completed2"} |-> 1]), loggedInfo |-> <<>>],
     [checkThis |-> TRUE, useBotCompletions |-> FALSE,
      botCompletions |-> <<>>, realmEyeCompletions |-> <<[key |-> "Nests", value |-> 1]>>,
      gyHist |-> GyWith(<<>>, [a \in {"Shatters completed1"} |-> 3]), loggedInfo |-> <<>>],
     [checkThis |-> TRUE, useBotCompletions |-> FALSE,
      botCompletions |-> <<>>, realmEyeCompletions |-> <<[key |-> "Nests", value |-> 0]>>,
      gyHist |-> GyWith(<<>>, [a \in {"Shatters completed1"} |-> 3]), loggedInfo |-> <<>>],
     [checkThis |-> TRUE, useBotCompletions |-> TRUE,
      botCompletions |-> [d \in {"SHATTERS"} |-> 2], realmEyeCompletions |-> <<>>,
      gyHist |-> GyUnavailable, loggedInfo |-> [d \in {"SHATTERS"} |-> 2]],
     [checkThis |-> TRUE, useBotCompletions |-> TRUE,
      botCompletions |-> [d \in {"SHATTERS"} |-> 2], realmEyeCompletions |-> <<>>,
      gyHist |-> GyEmpty, loggedInfo |-> [d \in {"SHATTERS"} |-> 1]],
     [checkThis |-> TRUE, useBotCompletions |-> TRUE,
      botCompletions |-> [d \in {"SHATTERS"} |-> 2], realmEyeCompletions |-> <<>>,
      gyHist |-> GyEmpty, loggedInfo |-> [d \in {"LOST_HALLS"} |-> 4]]}

ExaltationDetailCases ==
    {[checkThis |-> FALSE, minimum |-> [ZeroExalt EXCEPT !["att"] = 5], onOneChar |-> TRUE,
      exaltData |-> ExUnavailable],
     [checkThis |-> TRUE, minimum |-> [ZeroExalt EXCEPT !["att"] = 5], onOneChar |-> TRUE,
      exaltData |-> ExUnavailable],
     [checkThis |-> TRUE, minimum |-> [ZeroExalt EXCEPT !["att"] = 5, !["def"] = 5],
      onOneChar |-> TRUE,
      exaltData |-> [ok |-> TRUE,
                     exaltations |-> <<[ZeroEntry EXCEPT !["attack"] = 5],
                                       [ZeroEntry EXCEPT !["defense"] = 5]>>]],
     [checkThis |-> TRUE, minimum |-> [ZeroExalt EXCEPT !["att"] = 5, !["def"] = 5],
      onOneChar |-> TRUE,
      exaltData |-> [ok |-> TRUE,
                     exaltations |-> <<[ZeroEntry EXCEPT !["attack"] = 3],
                                       [ZeroEntry EXCEPT !["attack"] = 5, !["defense"] = 6]>>]],
     [checkThis |-> TRUE, minimum |-> [ZeroExalt EXCEPT !["att"] = 5, !["def"] = 5],
      onOneChar |-> FALSE,
      exaltData |-> [ok |-> TRUE,
                     exaltations |-> <<[ZeroEntry EXCEPT !["attack"] = 5],
                                       [ZeroEntry EXCEPT !["defense"] = 5]>>]],
     [checkThis |-> TRUE, minimum |-> [ZeroExalt EXCEPT !["att"] = 5], onOneChar |-> TRUE,
      exaltData |-> [ok |-> TRUE, exaltations |-> <<>>]],
     [checkThis |-> TRUE, minimum |-> ZeroExalt, onOneChar |-> TRUE,
      exaltData |-> [ok |-> TRUE, exaltations |-> <<>>]]}

DetailInputs ==
    {MakeInput(ls, g, rg, "Member", rk, fm, ch, gy, ex, chan) :
        ls \in LastSeenCases, g \in GuildDetailReqs, rg \in RespDetailGuilds,
        rk \in RankCases, fm \in FameCases, ch \in CharacterDetailCases,
        gy \in GraveyardDetailCases, ex \in ExaltationDetailCases, chan \in BOOLEAN}

\* The ranks of the ordering, one rank that is not of it, and no rank at all.
RankNames == {GUILD_ROLES[i] : i \in DOMAIN GUILD_ROLES} \cup {"Recruit", ""}

GuildRankReqs ==
    {[checkThis |-> TRUE,
      guildName |-> [checkThis |-> FALSE, name |-> "Alpha"],
      guildRank |-> [checkThis |-> TRUE, minRank |-> r, exact |-> e]] :
        r \in RankNames \ {""}, e \in BOOLEAN}

RankInputs ==
    {[NoRequirementsInput EXCEPT !.verifReq.guild = g, !.resp.guildRank = rgr,
                                 !.verifReq.lastSeen.mustBeHidden = ls.mustBeHidden,
                                 !.resp.lastSeen = ls.lastSeen] :
        g \in GuildRankReqs, rgr \in RankNames, ls \in LastSeenCases}

\* A third family, for the character block alone: every other check is off.
\* statsNeeded asks for up to two characters of each of the tiers 0..3.
MatchNeeded ==
    {[i \in 1..NUMBER_OF_STATS |-> IF i \in DOMAIN n THEN n[i] ELSE 0] :
        n \in [1..4 -> 0..2]}

\* resp.characters: up to three characters, statsMaxed -1 (unknown) or 0..3.
MatchCharacters ==
    UNION {[1..k -> {-1, 0, 1, 2, 3}] : k \in 0..3}

\* Live characters only: checkPastDeaths off, the summary may hold anything.
LiveMatchInputs ==
    {[NoRequirementsInput EXCEPT
         !.verifReq.characters = [checkThis |-> TRUE, statsNeeded |-> n,
                                  checkPastDeaths |-> FALSE],
         !.resp.characters = c,
         !.gyHist = GyWith(<<DeadAt(3, 2)>>, <<>>)] :
        n \in MatchNeeded, c \in MatchCharacters}

\* Past deaths: checkPastDeaths on, the summary has one class with k dead
\* characters of one tier, and at most one character is alive.
DeadMatchInputs ==
    {[NoRequirementsInput EXCEPT
         !.verifReq.characters = [checkThis |-> TRUE, statsNeeded |-> n,
                                  checkPastDeaths |-> TRUE],
         !.resp.characters = c,
         !.gyHist = GyWith(<<DeadAt(t, k)>>, <<>>)] :
        n \in MatchNeeded, c \in {c \in MatchCharacters : Len(c) <= 1 /\ \A i \in DOMAIN c : c[i] # -1},
        t \in 0..3, k \in 1..3}

MatchInputs == LiveMatchInputs \cup DeadMatchInputs

-----------------------------------------------------------------------------
(* The guild: members, sections, names, and the shape of a session.        *)

Members == {"u1", "u2"}
\* The member whose verification attempts the session specification follows.
Verifiers == {"u1"}
Sections == {"MAIN", "S1"}
Names == {"Alice", "Bob"}

\* guildDoc.moderation.blacklistedUsers: realmName.lowercaseIgn and actionId of
\* each entry.
blacklistedUsers ==
    <<[lowercaseIgn |-> "bob", actionId |-> "mod-1"],
      [lowercaseIgn |-> "carol", actionId |-> "mod-2"]>>

BlacklistedNames == {blacklistedUsers[i].lowercaseIgn : i \in DOMAIN blacklistedUsers}

\* Sessions alive together, "collect" callbacks running together, calls of
\* acknowledgeManualVerifyRes in flight together.
MaxSessions == 1
MaxHandlers == 1
MaxAcks == 2

CHECK_PROFILE_ID == "check_profile"
CANCEL_ID == "cancel"
NO_MANUAL_VERIFY_ID == "deny"
MANUAL_VERIFY_ID == "manual_verify"
MANUAL_VERIFY_ACCEPT_ID == "accept_manual"
MANUAL_VERIFY_DENY_ID == "reject_manual"
MANUAL_VERIFY_MODMAIL_ID == "modmail_manual"

Slots == 1..MaxHandlers

\* A callback slot in which nothing runs.
Idle == [pc |-> "idle", customId |-> "", msgId |-> 0]

\* lastCheck when the last step completed no profile check.  dmOk tells
\* whether the direct message a check waits for before it lets the member
\* retry was sent, names are the names the check looked up in the blacklist,
\* modId is the moderation id it showed and logged for a name found there, and
\* issues are the issues it showed and logged after a FAIL of checkRequirements.
NoCheck == [member |-> "", section |-> "", requestOk |-> FALSE, codeFound |-> FALSE, historyOk |-> FALSE,
            blacklisted |-> FALSE, dmOk |-> FALSE, names |-> {}, modId |-> "",
            issues |-> <<>>]

\* lastEnded when the last step ended no session.
NoEnd == [member |-> "", section |-> "", prev |-> "NONE", outcome |-> "NONE", buttons |-> {}]

\* lastAck when no call of acknowledgeManualVerifyRes returned in the last step.
NoAck == [msgId |-> 0, kind |-> "NONE"]

\* The state of the logger and of the configuration command before any call.

\* member.guild.id of the one guild followed.
GuildId == "g"

\* part_001 lines 15-24
KEY_IDS_TO_STORE ==
    {"VIAL_OF_PURE_DARKNESS", "SHIELD_RUNE", "SWORD_RUNE", "HELM_RUNE", "LOST_HALLS_KEY",
     "NEST_KEY", "SHATTERS_KEY", "FUNGAL_CAVERN_KEY"}

\* The key ids and dungeon ids the log calls are made with.
\* "CUSTOM_GONE" is a custom dungeon the guild document no longer has.
LogKeyIds == {"SHIELD_RUNE", "NEXUS_KEY"}
LogDungeonIds == {"SHATTERS", "CUSTOM_GONE"}

\* guildDoc.properties.reactionPoints: points per key id.
reactionPoints == [k \in {"SHIELD_RUNE"} |-> 2]

\* guildDoc.properties.customDungeons, by codeName.
customDungeons == {}

\* part_001 lines 62-67
getDungeonIdToLog(origDungeonId) ==
    IF origDungeonId \notin {"CUSTOM_GONE"} THEN origDungeonId
    ELSE IF origDungeonId \in customDungeons THEN origDungeonId ELSE "null"

\* part_001 lines 114-120, 145, 161, 175: a key "a:b:c:d" is the sequence of
\* its parts, which is what key.split(":") gives back.
KeyUseKey(keyId) ==
    IF keyId \in KEY_IDS_TO_STORE THEN <<"K", GuildId, keyId, "USE">>
    ELSE <<"K", GuildId, "GENERAL", "USE">>
DungeonRunKey(dgnId, completed) == <<"R", GuildId, dgnId, IF completed THEN "1" ELSE "0">>
DungeonLeadKey(dgnId, result) == <<"L", GuildId, dgnId, result>>
PointsKey == <<"P", GuildId>>

\* The keys a call can log under.
LogKeys ==
    {KeyUseKey(k) : k \in LogKeyIds}
    \cup {DungeonRunKey("SHATTERS", c) : c \in BOOLEAN}
    \cup {DungeonLeadKey("SHATTERS", "Failed")}
    \cup {PointsKey}

\* The users who run the configuration command.
ConfigUsers == {"u1", "u2"}

\* A user who is in no flow of the command.  guildDoc is ctx.guildDoc, list
\* the page's working copy, idx the page's selection index, entered the list
\* of ctx.guildDoc as it was when the page was entered, presses the number of
\* buttons the user has pressed so far (timeouts included).
NoFlow == [pc |-> "none", guildDoc |-> <<>>, list |-> <<>>, idx |-> 0, entered |-> <<>>,
           presses |-> 0]

\* The two lists of the guild document when the model starts.
InitialGuildDoc ==
    [approvedCustomImages |-> <<[name |-> "a", url |-> "url-1"]>>,
     customReactions |-> <<[name |-> "a", emojiInfo |-> "x"]>>]

AuxIdle ==
    /\ loggedInfoDb = <<>>
    /\ logCalls = EmptyBag
    /\ loggedTotal = [k \in LogKeys |-> 0]
    /\ ACTIVE_USERS = {}
    /\ guildDocDb = InitialGuildDoc
    /\ flows = [u \in ConfigUsers |-> NoFlow]

\* A step that runs no profile check and no evaluation, and in which no call
\* of acknowledgeManualVerifyRes returns.
NoCheckNow ==
    /\ evalInput' = NoRequirementsInput
    /\ evalResult' = NoResult
    /\ lastCheck' = NoCheck
    /\ lastAck' = NoAck
    /\ UNCHANGED auxVars

\* State of the guild in which nothing has started.
WorldIdle ==
    /\ sessions = EmptyBag
    /\ lastEnded = NoEnd
    /\ manualVerificationEntries = {}
    /\ queueMsgs = {}
    /\ nextMsgId = 1
    /\ roles = {}
    /\ idNames = [m \in Members |-> {}]
    /\ present = Members
    /\ sectionExists = [sec \in Sections |-> TRUE]
    /\ roleExists = [sec \in Sections |-> TRUE]
    /\ checkReqFlag = [sec \in Sections |-> TRUE]
    /\ manualChannel = [sec \in Sections |-> TRUE]
    /\ acks = <<>>
    /\ notices = {}
    /\ lastAck = NoAck
    /\ AuxIdle

-----------------------------------------------------------------------------
(* Specification of the evaluator alone: one call of checkRequirements on  *)
(* a bounded input.                                                        *)

InitEval ==
    /\ evalInput \in EvalInputs
    /\ evalResult = NoResult
    /\ lastCheck = NoCheck
    /\ WorldIdle

RunCheckRequirements ==
    /\ evalResult.conclusion = "NONE"
    /\ evalResult' = checkRequirements(evalInput)
    /\ UNCHANGED <<evalInput, lastCheck, worldVars>>

NextEval == RunCheckRequirements

SpecEval == InitEval /\ [][NextEval]_vars

\* The evaluator on the second family of inputs.
InitDetail ==
    /\ evalInput \in DetailInputs \cup RankInputs
    /\ evalResult = NoResult
    /\ lastCheck = NoCheck
    /\ WorldIdle

SpecDetail == InitDetail /\ [][NextEval]_vars

\* The evaluator on the third family of inputs.
InitMatch ==
    /\ evalInput \in MatchInputs
    /\ evalResult = NoResult
    /\ lastCheck = NoCheck
    /\ WorldIdle

SpecMatch == InitMatch /\ [][NextEval]_vars

Returned == evalResult.conclusion # "NONE"

\* C1: in every returned result the conclusion follows the precedence over the
\* issue lists: FAIL whenever fatalIssues is non-empty; TRY_AGAIN only with no
\* fatal and some try-again issue; MANUAL only with no fatal, no try-again and
\* some manual issue; PASS only with all three lists empty.
C1_VerdictPrecedence ==
    Returned =>
        /\ (evalResult.fatalIssues # <<>> => evalResult.conclusion = "FAIL")
        /\ (evalResult.conclusion = "TRY_AGAIN" =>
                evalResult.fatalIssues = <<>> /\ evalResult.taIssues # <<>>)
        /\ (evalResult.conclusion = "MANUAL" =>
                /\ evalResult.fatalIssues = <<>>
                /\ evalResult.taIssues = <<>>
                /\ evalResult.manualIssues # <<>>)
        /\ (evalResult.conclusion = "PASS" =>
                /\ evalResult.fatalIssues = <<>>
                /\ evalResult.taIssues = <<>>
                /\ evalResult.manualIssues = <<>>)

\* A fatal issue together with an issue of another class was returned as FAIL,
\* and a result with try-again and manual issues together was returned.
C1_Witness ==
    /\ Returned
    /\ evalResult.conclusion = "FAIL"
    /\ evalResult.fatalIssues # <<>>
    /\ evalResult.taIssues # <<>>

GuildNameMismatch ==
    /\ evalInput.verifReq.guild.checkThis
    /\ evalInput.verifReq.guild.guildName.checkThis
    /\ toLowerCase(evalInput.resp.guild) # toLowerCase(evalInput.verifReq.guild.guildName.name)

\* C2: with the guild check and the guild-name check enabled and a guild name
\* that differs case-insensitively from the required one, the result is FAIL
\* with the one fatal issue "Not In Correct Guild", whatever the other
\* requirements are, and nothing is appended after it: no manual issue, and no
\* try-again issue other than the last-seen one raised before the guild check.
C2_GuildMismatchShortCircuits ==
    (Returned /\ GuildNameMismatch) =>
        /\ evalResult.conclusion = "FAIL"
        /\ Len(evalResult.fatalIssues) = 1
        /\ evalResult.fatalIssues[1].key = "Not In Correct Guild"
        /\ evalResult.manualIssues = <<>>
        /\ \A i \in DOMAIN evalResult.taIssues :
              evalResult.taIssues[i].key = "Last Seen Location is Not Private"

\* A mismatch was evaluated on an input whose rank, fame, character, graveyard
\* and exaltation blocks would each have raised an issue.
C2_Witness ==
    /\ Returned
    /\ GuildNameMismatch
    /\ RankIssues(evalInput.verifReq, evalInput.resp) # <<>>
    /\ FameIssues(evalInput.verifReq, evalInput.resp) # <<>>
    /\ CharacterIssues(evalInput.verifReq, evalInput.resp, evalInput.gyHist) # <<>>
    /\ GraveyardIssues(evalInput.verifReq, evalInput.gyHist, evalInput.loggedInfo)[2] # <<>>
    /\ ExaltationIssues(evalInput.verifReq, evalInput.exaltData)[2] # <<>>

\* A mismatch was evaluated on an input every other block of which passes.
C2_WitnessOthersPass ==
    /\ Returned
    /\ GuildNameMismatch
    /\ evalResult.taIssues = <<>>
    /\ RankIssues(evalInput.verifReq, evalInput.resp) = <<>>
    /\ FameIssues(evalInput.verifReq, evalInput.resp) = <<>>
    /\ CharacterIssues(evalInput.verifReq, evalInput.resp, evalInput.gyHist) = <<>>

ResolvesToManual ==
    /\ evalResult.fatalIssues = <<>>
    /\ evalResult.taIssues = <<>>
    /\ evalResult.manualIssues # <<>>

\* C4: when the issue lists resolve to MANUAL the result is FAIL if the section
\* has no manual verification channel and MANUAL if it has one; every other
\* resolution (FAIL, TRY_AGAIN, PASS) is returned as it is, channel or not.
C4_ManualNeedsChannel ==
    Returned =>
        /\ (ResolvesToManual /\ ~evalInput.hasManualChannel => evalResult.conclusion = "FAIL")
        /\ (ResolvesToManual /\ evalInput.hasManualChannel => evalResult.conclusion = "MANUAL")
        /\ (evalResult.fatalIssues # <<>> => evalResult.conclusion = "FAIL")
        /\ (evalResult.fatalIssues = <<>> /\ evalResult.taIssues # <<>> =>
                evalResult.conclusion = "TRY_AGAIN")
        /\ (evalResult.fatalIssues = <<>> /\ evalResult.taIssues = <<>>
                /\ evalResult.manualIssues = <<>> => evalResult.conclusion = "PASS")

\* Manual issues alone were returned as FAIL because the channel is missing.
C4_Witness ==
    /\ Returned
    /\ ResolvesToManual
    /\ ~evalInput.hasManualChannel
    /\ evalResult.conclusion = "FAIL"

-----------------------------------------------------------------------------
(* Verification sessions.  A session is the closure of one call of verify: *)
(* verifyMain with its component collector, or verifySection.  h holds the *)
(* executions of the "collect" callback (of verifySection's body for a     *)
(* section) that are in flight, each with the manual-review prompt it may  *)
(* have opened.  Once its collector has ended and no callback is in flight *)
(* nothing of the session can run any more and it leaves the bag.          *)

\* lines 647 and 637: the time of the collector of verifyMain, in minutes.
TWENTY_MINUTES == 20

\* The session created by verify (lines 436-442): verifyMain waits for a name,
\* verifySection is about to run.  code is the generated verification code,
\* elapsed the minutes since timeStarted (line 632) on the timer of a running
\* collector, and expiry the time the message says the verification expires
\* at, in minutes after timeStarted.
NewSession(m, sec) ==
    [member |-> m,
     section |-> sec,
     pc |-> IF sec # "MAIN" THEN "section"
            ELSE IF idNames[m] # {} THEN "selectName" ELSE "typeName",
     options |-> IF sec = "MAIN" THEN idNames[m] ELSE {},
     nameToVerify |-> "",
     allAssociatedNames |-> {},
     code |-> 0,
     elapsed |-> 0,
     expiry |-> 0,
     collector |-> "none",
     buttons |-> IF sec = "MAIN" /\ idNames[m] # {} THEN {"select", "skip", CANCEL_ID} ELSE {},
     outcome |-> "NONE",
     h |-> [k \in Slots |-> Idle]]

\* A session that still waits for, or works on, something.
Active(ses) ==
    \/ ses.pc \in {"selectName", "typeName", "awaitProof", "section"}
    \/ \E k \in Slots : ses.h[k].pc # "idle"

\* A step of session ses that leaves it as new: a session of which nothing can
\* run any more leaves the bag.
Update(ses, new) ==
    /\ sessions' = (sessions (-) SetToBag({ses}))
                        (+) (IF Active(new) THEN SetToBag({new}) ELSE EmptyBag)
    /\ lastEnded' = IF Active(new) THEN NoEnd
                    ELSE [member |-> new.member, section |-> new.section,
                          prev |-> ses.outcome, outcome |-> new.outcome,
                          buttons |-> new.buttons]

HasEntry(m, sec) ==
    \E e \in manualVerificationEntries : e.userId = m /\ e.sectionId = sec

\* verifyInteraction / verifyMainCommand and verify, lines 229-443: the member
\* is in the guild, the verified role exists and the member lacks it, and the
\* member has no manual verification entry for the section.  Nothing is asked
\* about the sessions now alive.
StartSession(m, sec) ==
    /\ m \in present
    /\ sectionExists[sec]
    /\ roleExists[sec]
    /\ <<m, sec>> \notin roles
    /\ ~HasEntry(m, sec)
    /\ sessions' = sessions (+) SetToBag({NewSession(m, sec)})
    /\ lastEnded' = NoEnd
    /\ NoCheckNow
    /\ UNCHANGED <<manualVerificationEntries, queueMsgs, nextMsgId, roles, idNames,
                   guildVars, acks, notices>>

\* A member starts verification in a section.
StartVerify(m, sec) ==
    /\ BagCardinality(sessions) < MaxSessions
    /\ StartSession(m, sec)

\* A member starts verification in a section once more while a session of
\* theirs for that section is alive.
VerifyAgain(m, sec) ==
    /\ \E ses \in DOMAIN sessions : ses.member = m /\ ses.section = sec
    /\ BagCardinality(sessions) <= MaxSessions
    /\ StartSession(m, sec)

\* The verification code of line 626, a random string of 15 characters.
GeneratedCode == 1

\* Entry into the proof step, lines 618-652: the code is generated and shown
\* with the Check Profile and Cancel buttons, and the collector starts.
\* The same read off the clock: Date.now() + 20 * 60 * 1000.
FooterExpiryFromNow(ses) == ses.elapsed + TWENTY_MINUTES

\* lines 637, 762, 811 and 950: the footer "Verification Process Expires" shows
\* timeStarted + 20 * 60 * 1000.
FooterExpiry(ses) == 0 + TWENTY_MINUTES

\* lines 617-652: the code is made, timeStarted is taken, the message shows the
\* code with the two buttons and the collector starts.
EnterProof(ses, name, assoc) ==
    [ses EXCEPT !.pc = "awaitProof",
                !.nameToVerify = name,
                !.allAssociatedNames = assoc,
                !.code = GeneratedCode,
                !.elapsed = 0,
                !.expiry = FooterExpiry(ses),
                !.collector = "active",
                !.buttons = {CHECK_PROFILE_ID, CANCEL_ID}]

Stopped(ses, result) ==
    [ses EXCEPT !.pc = "done", !.outcome = result, !.buttons = {}]

\* lines 489-524, a name picked from the select menu.
SelectName(ses, name) ==
    /\ ses.pc = "selectName"
    /\ name \in ses.options
    /\ Update(ses, EnterProof(ses, name, ses.options))
    /\ NoCheckNow
    /\ UNCHANGED <<manualVerificationEntries, queueMsgs, nextMsgId, roles, idNames,
                   guildVars, acks, notices>>

\* lines 510-527, the Skip button: the member is asked to type a name.
SkipSelect(ses) ==
    /\ ses.pc = "selectName"
    /\ Update(ses, [ses EXCEPT !.pc = "typeName", !.buttons = {}])
    /\ NoCheckNow
    /\ UNCHANGED <<manualVerificationEntries, queueMsgs, nextMsgId, roles, idNames,
                   guildVars, acks, notices>>

\* lines 500-508 and 515-523: no selection in two minutes, or Cancel.
SelectEnd(ses, result) ==
    /\ ses.pc = "selectName"
    /\ result \in {"TIMED_OUT", "CANCELED"}
    /\ Update(ses, Stopped(ses, result))
    /\ NoCheckNow
    /\ UNCHANGED <<manualVerificationEntries, queueMsgs, nextMsgId, roles, idNames,
                   guildVars, acks, notices>>

\* The same with a name registered under the member's own id taken as well.
NameTakenByAnyone(m, name) ==
    \E o \in Members : name \in idNames[o]

\* lines 579-589: the typed name is registered, and only under other ids.
NameTakenByOthers(m, name) ==
    /\ name \notin idNames[m]
    /\ \E o \in Members \ {m} : name \in idNames[o]

\* lines 547-616, a name typed in the direct message.
TypeName(ses, name) ==
    /\ ses.pc = "typeName"
    /\ name \in Names
    /\ LET m == ses.member
       IN Update(ses, IF NameTakenByOthers(m, name)
                    THEN Stopped(ses, "FAIL")
                    ELSE EnterProof(ses, name,
                                    IF name \in idNames[m] THEN idNames[m] ELSE {}))
    /\ NoCheckNow
    /\ UNCHANGED <<manualVerificationEntries, queueMsgs, nextMsgId, roles, idNames,
                   guildVars, acks, notices>>

\* lines 568-576: "-cancel" was typed, or nothing within two minutes.
TypeEnd(ses, result) ==
    /\ ses.pc = "typeName"
    /\ result \in {"TIMED_OUT", "CANCELED"}
    /\ Update(ses, Stopped(ses, result))
    /\ NoCheckNow
    /\ UNCHANGED <<manualVerificationEntries, queueMsgs, nextMsgId, roles, idNames,
                   guildVars, acks, notices>>

\* The player data a check may fetch, as far as the requirements of the
\* session specifications read it: the last-seen location, the guild, the rank.
SessionRespCases ==
    {[lastSeen |-> "hidden", guild |-> "ALPHA", rank |-> 10],
     [lastSeen |-> "visible", guild |-> "ALPHA", rank |-> 10],
     [lastSeen |-> "hidden", guild |-> "ALPHA", rank |-> 5],
     [lastSeen |-> "visible", guild |-> "Beta", rank |-> 5]}

DefaultResp == [lastSeen |-> "hidden", guild |-> "ALPHA", rank |-> 10]

\* A check of verifyMain in which every fetch succeeds and nothing is wrong.
GoodFetch(code) ==
    [requestOk |-> TRUE, description |-> {code}, historyOk |-> TRUE, nameHistory |-> {},
     resp |-> DefaultResp, dmOk |-> TRUE]

\* What one check of verifyMain may fetch: whether the player data came, the
\* codes its description contains, whether the name history came and its
\* names, the player data, and whether the follow-up direct message is sent.
CheckInputs(code) ==
    {[GoodFetch(code) EXCEPT !.requestOk = FALSE, !.description = {}]}
    \cup {[GoodFetch(code) EXCEPT !.description = {}, !.dmOk = d] : d \in BOOLEAN}
    \cup {[GoodFetch(code) EXCEPT !.historyOk = FALSE, !.dmOk = d] : d \in BOOLEAN}
    \cup {[GoodFetch(code) EXCEPT !.nameHistory = {"Bob"}]}
    \cup {[GoodFetch(code) EXCEPT !.resp = r, !.dmOk = d] : r \in SessionRespCases, d \in BOOLEAN}

\* The arguments of checkRequirements in a session: the section requires a
\* hidden last-seen location, the guild "Alpha" and rank 10.
SessionInput(sec, r) ==
    LET base == NoRequirementsInput
    IN [base EXCEPT
          !.verifReq.lastSeen.mustBeHidden = TRUE,
          !.verifReq.guild = [checkThis |-> TRUE,
                              guildName |-> [checkThis |-> TRUE, name |-> "Alpha"],
                              guildRank |-> [checkThis |-> FALSE, minRank |-> "Officer",
                                             exact |-> FALSE]],
          !.verifReq.rank = [checkThis |-> TRUE, minRank |-> 10],
          !.resp.lastSeen = r.lastSeen,
          !.resp.guild = r.guild,
          !.resp.rank = r.rank,
          !.hasManualChannel = manualChannel[sec]]

\* lines 654-655: a button press reaches the collector of an open session (the
\* filter admits the member only); the callback starts in the lowest free slot.
FreeSlot(ses, k) ==
    /\ ses.h[k].pc = "idle"
    /\ \A j \in Slots : j < k => ses.h[j].pc # "idle"

\* The callbacks now between the button press and the end of their check.
RunningIn(ses) == Cardinality({k \in Slots : ses.h[k].pc \in {"deferred", "checking"}})

Running == SumOver([ses \in DOMAIN sessions |-> sessions[ses] * RunningIn(ses)], DOMAIN sessions)

Collect(ses, k, id) ==
    /\ Running < MaxHandlers
    /\ ses.collector = "active"
    /\ id \in {CHECK_PROFILE_ID, CANCEL_ID}
    /\ id \in ses.buttons
    /\ FreeSlot(ses, k)
    /\ Update(ses, [ses EXCEPT !.h[k] = [Idle EXCEPT !.pc = "deferred", !.customId = id]])
    /\ NoCheckNow
    /\ UNCHANGED <<manualVerificationEntries, queueMsgs, nextMsgId, roles, idNames,
                   guildVars, acks, notices>>

\* collector.stop() and the end of the collector's 20 minutes.
CollectorStopped(ses, result) ==
    [ses EXCEPT !.collector = "ended", !.pc = "done", !.outcome = result, !.elapsed = 0]

\* lines 656-676: Cancel was pressed.
HandleCancel(ses, k) ==
    /\ ses.h[k].pc = "deferred"
    /\ ses.h[k].customId = CANCEL_ID
    /\ Update(ses, [CollectorStopped(ses, "CANCELED") EXCEPT !.buttons = {}, !.h[k] = Idle])
    /\ NoCheckNow
    /\ UNCHANGED <<manualVerificationEntries, queueMsgs, nextMsgId, roles, idNames,
                   guildVars, acks, notices>>

\* lines 678-695: Check Profile was pressed; the message shows "Checking"
\* without buttons and the player data is requested.
HandleCheck(ses, k) ==
    /\ ses.h[k].pc = "deferred"
    /\ ses.h[k].customId # CANCEL_ID
    /\ Update(ses, [ses EXCEPT !.buttons = {}, !.h[k].pc = "checking"])
    /\ NoCheckNow
    /\ UNCHANGED <<manualVerificationEntries, queueMsgs, nextMsgId, roles, idNames,
                   guildVars, acks, notices>>

\* lines 645-652: the rest of the collector's time passes and its timer fires;
\* the "end" listener does nothing.
CollectorTimeout(ses) ==
    /\ ses.collector = "active"
    /\ Update(ses, CollectorStopped(ses, "TIMED_OUT"))
    /\ NoCheckNow
    /\ UNCHANGED <<manualVerificationEntries, queueMsgs, nextMsgId, roles, idNames,
                   guildVars, acks, notices>>

\* The instants, in minutes after timeStarted, at which the clock is looked at.
Instants == {5, 10, 15, TWENTY_MINUTES}

\* Time passes for a session whose collector runs, up to instant t; the timer
\* of line 647 lets it pass no further than its twenty minutes.
Tick(ses, t) ==
    /\ ses.collector = "active"
    /\ t \in Instants
    /\ ses.elapsed < t
    /\ t <= TWENTY_MINUTES
    /\ Update(ses, [ses EXCEPT !.elapsed = t])
    /\ NoCheckNow
    /\ UNCHANGED <<manualVerificationEntries, queueMsgs, nextMsgId, roles, idNames,
                   guildVars, acks, notices>>

\* lines 744-750: some line of the description includes the code.  A
\* description is given by the set of codes its lines contain.
CodeFound(description, code) == code \in description

\* The same with the names compared as they are written.
BlacklistedAsWritten(name, nameHistory, allAssociatedNames) ==
    \E nameEntry \in {name} \cup nameHistory \cup allAssociatedNames :
        nameEntry \in BlacklistedNames

\* lines 848-856: the fetched name, a name of the name history or an associated
\* name equals, in lower case, the name of a blacklist entry.
Blacklisted(name, nameHistory, allAssociatedNames) ==
    \E nameEntry \in {name} \cup nameHistory \cup allAssociatedNames :
        toLowerCase(nameEntry) \in BlacklistedNames

\* lines 848-856: the names that made the first blacklist entry with a match
\* match, and (lines 876 and 888) the actionId of that entry.
HitNames(i, name, nameHistory, allAssociatedNames) ==
    {nameEntry \in {name} \cup nameHistory \cup allAssociatedNames :
        blacklistedUsers[i].lowercaseIgn = toLowerCase(nameEntry)}

FirstHit(name, nameHistory, allAssociatedNames) ==
    CHOOSE i \in DOMAIN blacklistedUsers :
        /\ HitNames(i, name, nameHistory, allAssociatedNames) # {}
        /\ \A j \in 1..(i - 1) : HitNames(j, name, nameHistory, allAssociatedNames) = {}

\* The same without the test of the description for the code.
CheckOutcomeNoCode(requestOk, codeFound, historyOk, blacklisted, conclusion) ==
    IF ~requestOk THEN "NO_DATA"
    ELSE IF ~historyOk THEN "NO_HISTORY"
    ELSE IF blacklisted THEN "BLACKLISTED"
    ELSE conclusion

\* lines 697-992: how one check of verifyMain ends.  requestOk and historyOk
\* tell whether the player data and the name history were obtained.
CheckOutcome(requestOk, codeFound, historyOk, blacklisted, conclusion) ==
    IF ~requestOk THEN "NO_DATA"
    ELSE IF ~codeFound THEN "NO_CODE"
    ELSE IF ~historyOk THEN "NO_HISTORY"
    ELSE IF blacklisted THEN "BLACKLISTED"
    ELSE conclusion

\* The same with the session stopped whenever the member would have to retry.
AfterCheckStopsOnRetry(ses, k, outcome, dmOk) ==
    CASE outcome \in {"NO_DATA", "BLACKLISTED", "FAIL"} ->
            [CollectorStopped(ses, "FAIL") EXCEPT !.buttons = {}, !.h[k] = Idle]
      [] outcome \in {"NO_CODE", "NO_HISTORY", "TRY_AGAIN"} ->
            [CollectorStopped(ses, "CANCELED") EXCEPT !.buttons = {}, !.h[k] = Idle]
      [] outcome = "MANUAL" ->
            [CollectorStopped(ses, "MANUAL_PROMPT") EXCEPT
                !.buttons = {NO_MANUAL_VERIFY_ID, MANUAL_VERIFY_ID},
                !.h[k] = [Idle EXCEPT !.pc = "prompt"]]
      [] outcome = "PASS" ->
            [CollectorStopped(ses, "SUCCESS") EXCEPT !.h[k] = Idle]

\* The session after a check with the given outcome (slot k ran it); dmOk tells
\* whether the follow-up direct message could be sent (r at lines 774, 825, 963).
AfterCheck(ses, k, outcome, dmOk) ==
    CASE outcome \in {"NO_DATA", "BLACKLISTED", "FAIL"} ->
            [CollectorStopped(ses, "FAIL") EXCEPT !.buttons = {}, !.h[k] = Idle]
      [] outcome \in {"NO_CODE", "NO_HISTORY", "TRY_AGAIN"} ->
            IF dmOk
            THEN [ses EXCEPT !.buttons = {CHECK_PROFILE_ID, CANCEL_ID},
                             !.expiry = FooterExpiry(ses), !.h[k] = Idle]
            ELSE [CollectorStopped(ses, "CANCELED") EXCEPT !.buttons = {}, !.h[k] = Idle]
      [] outcome = "MANUAL" ->
            [CollectorStopped(ses, "MANUAL_PROMPT") EXCEPT
                !.buttons = {NO_MANUAL_VERIFY_ID, MANUAL_VERIFY_ID},
                !.h[k] = [Idle EXCEPT !.pc = "prompt"]]
      [] outcome = "PASS" ->
            [CollectorStopped(ses, "SUCCESS") EXCEPT !.h[k] = Idle]

\* line 901 (issuesToUse) and lines 1124 and 1131: the issues a FAIL is
\* explained with, to the member and in the log.
IssuesShownMain(checkRes) ==
    IF Len(checkRes.fatalIssues) = 0 THEN checkRes.manualIssues ELSE checkRes.fatalIssues

IssuesShownSection(checkRes) == checkRes.fatalIssues

\* lines 692-1030: the rest of the "collect" callback of verifyMain.
CheckFinish(ses, k) ==
    /\ ses.h[k].pc = "checking"
    /\ \E in \in CheckInputs(ses.code) :
        LET m == ses.member
            r == in.resp
            checkRes == checkRequirements(SessionInput("MAIN", r))
            codeFound == CodeFound(in.description, ses.code)
            blacklisted == Blacklisted(ses.nameToVerify, in.nameHistory,
                                       ses.allAssociatedNames)
            outcome == CheckOutcome(in.requestOk, codeFound, in.historyOk, blacklisted,
                                    checkRes.conclusion)
            evaluated == outcome \in {"PASS", "MANUAL", "TRY_AGAIN", "FAIL"}
        IN /\ Update(ses, AfterCheck(ses, k, outcome, in.dmOk))
           /\ roles' = IF outcome = "PASS" THEN roles \cup {<<m, "MAIN">>} ELSE roles
           /\ idNames' = IF outcome = "PASS"
                         THEN [idNames EXCEPT ![m] = @ \cup {ses.nameToVerify}]
                         ELSE idNames
           /\ evalInput' = IF evaluated THEN SessionInput("MAIN", r) ELSE NoRequirementsInput
           /\ evalResult' = IF evaluated THEN checkRes ELSE NoResult
           /\ lastCheck' = [member |-> m, section |-> "MAIN", requestOk |-> in.requestOk, codeFound |-> codeFound,
                            historyOk |-> in.historyOk, blacklisted |-> blacklisted,
                            dmOk |-> in.dmOk \/ outcome \notin {"NO_CODE", "NO_HISTORY",
                                                                  "TRY_AGAIN"},
                            names |-> IF in.requestOk /\ codeFound /\ in.historyOk
                                      THEN {ses.nameToVerify} \cup in.nameHistory
                                                \cup ses.allAssociatedNames
                                      ELSE {},
                            modId |-> IF outcome = "BLACKLISTED"
                                      THEN blacklistedUsers[
                                               FirstHit(ses.nameToVerify, in.nameHistory,
                                                        ses.allAssociatedNames)].actionId
                                      ELSE "",
                            issues |-> IF outcome = "FAIL" THEN IssuesShownMain(checkRes)
                                       ELSE <<>>]
    /\ UNCHANGED <<manualVerificationEntries, queueMsgs, nextMsgId, guildVars, acks, notices,
                   lastAck, auxVars>>

\* The same, opting out only by the Deny Manual Verify button.
OptsOutOnDenyOnly(selected) == selected = NO_MANUAL_VERIFY_ID

\* line 1281: the member did not opt in (no response, or Deny Manual Verify).
OptsOut(selected) == selected = "none" \/ selected = NO_MANUAL_VERIFY_ID

\* lines 1263-1312 and 1323-1382 for one prompt: after the response (selected,
\* "none" when the two minutes passed) the prompt is over, or the review
\* message msgId is in the manual verification channel and the entry is about
\* to be stored.  Without a manual verification channel nothing is posted.
AfterPrompt(slot, selected, hasChannel, msgId) ==
    IF OptsOut(selected) \/ ~hasChannel
    THEN Idle
    ELSE [slot EXCEPT !.pc = "posted", !.customId = selected, !.msgId = msgId]

Prompts(ses) == {k \in Slots : ses.h[k].pc = "prompt"}

\* Ids of the review messages the prompts in ks post.
PostedIds(ks, selected, hasChannel) ==
    IF OptsOut(selected) \/ ~hasChannel THEN {}
    ELSE {nextMsgId + Cardinality({j \in ks : j < k}) : k \in ks}

ResolvePrompts(ses, ks, selected) ==
    LET hasChannel == manualChannel[ses.section]
        ids == PostedIds(ks, selected, hasChannel)
    IN /\ Update(ses, [ses EXCEPT
                 !.buttons = {},
                 !.outcome = IF OptsOut(selected) THEN "FAIL" ELSE "MANUAL_ACCEPTED",
                 !.h = [k \in Slots |->
                          IF k \in ks
                          THEN AfterPrompt(ses.h[k], selected, hasChannel,
                                           nextMsgId + Cardinality({j \in ks : j < k}))
                          ELSE ses.h[k]]])
       /\ queueMsgs' = queueMsgs \cup ids
       /\ nextMsgId' = nextMsgId + Cardinality(ids)

\* lines 1263-1312: a button of the consent prompt is pressed; every collector
\* waiting on that message receives the press.
PromptChoice(ses, selected) ==
    /\ Prompts(ses) # {}
    /\ selected \in ses.buttons
    /\ selected \in {NO_MANUAL_VERIFY_ID, MANUAL_VERIFY_ID}
    /\ ResolvePrompts(ses, Prompts(ses), selected)
    /\ NoCheckNow
    /\ UNCHANGED <<manualVerificationEntries, roles, idNames, guildVars, acks, notices>>

\* lines 1263-1296: the two minutes of a consent prompt pass without a response.
PromptTimeout(ses, k) ==
    /\ ses.h[k].pc = "prompt"
    /\ ResolvePrompts(ses, {k}, "none")
    /\ NoCheckNow
    /\ UNCHANGED <<manualVerificationEntries, roles, idNames, guildVars, acks, notices>>

\* lines 1384-1394: the entry is pushed to manualVerificationEntries.
PushEntry(ses, k) ==
    /\ ses.h[k].pc = "posted"
    /\ manualVerificationEntries' = manualVerificationEntries \cup
            {[userId |-> ses.member,
              ign |-> ses.nameToVerify,
              manualVerifyMsgId |-> ses.h[k].msgId,
              sectionId |-> ses.section]}
    /\ Update(ses, [ses EXCEPT !.h[k] = Idle])
    /\ NoCheckNow
    /\ UNCHANGED <<queueMsgs, nextMsgId, roles, idNames, guildVars, acks, notices>>

\* lines 1061-1082: the name used in a section is the first name of the
\* nickname, else the first registered name; "" when there is neither.
SectionName(m, nick) ==
    IF nick # "" THEN nick
    ELSE IF idNames[m] = {} THEN ""
    ELSE CHOOSE n \in idNames[m] : TRUE

\* lines 1041-1166: verifySection.  nick is the name in the member's nickname
\* ("" when it holds none), requestOk whether the player data was obtained,
\* dmOk whether the consent prompt could be sent.
SectionCheck(ses) ==
    /\ ses.pc = "section"
    /\ \E nick \in {"", "Alice"}, requestOk \in BOOLEAN, r \in SessionRespCases,
          dmOk \in BOOLEAN :
        LET m == ses.member
            sec == ses.section
            name == SectionName(m, nick)
            checkRes == checkRequirements(SessionInput(sec, r))
            outcome ==
                IF ~roleExists[sec] \/ <<m, sec>> \in roles THEN "NO_ROLE"
                ELSE IF ~checkReqFlag[sec] THEN "PASS"
                ELSE IF name = "" THEN "NO_NAME"
                ELSE IF ~requestOk THEN "NO_DATA"
                ELSE checkRes.conclusion
            evaluated == outcome = checkRes.conclusion /\ checkReqFlag[sec]
                         /\ roleExists[sec] /\ <<m, sec>> \notin roles
        IN /\ Update(ses,
                CASE outcome = "NO_ROLE" -> Stopped(ses, "NONE")
                  [] outcome \in {"NO_NAME", "NO_DATA", "FAIL"} -> Stopped(ses, "FAIL")
                  [] outcome = "TRY_AGAIN" -> Stopped(ses, "TRY_AGAIN")
                  [] outcome = "PASS" -> Stopped(ses, "SUCCESS")
                  [] outcome = "MANUAL" ->
                        IF dmOk
                        THEN [ses EXCEPT
                                !.pc = "done", !.outcome = "MANUAL_PROMPT",
                                !.nameToVerify = name,
                                !.buttons = {NO_MANUAL_VERIFY_ID, MANUAL_VERIFY_ID},
                                !.h[1] = [Idle EXCEPT !.pc = "prompt"]]
                        ELSE Stopped(ses, "FAIL"))
           /\ roles' = IF outcome = "PASS" THEN roles \cup {<<m, sec>>} ELSE roles
           /\ evalInput' = IF evaluated THEN SessionInput(sec, r) ELSE NoRequirementsInput
           /\ evalResult' = IF evaluated THEN checkRes ELSE NoResult
           /\ lastCheck' = [NoCheck EXCEPT !.member = m, !.section = sec,
                                           !.requestOk = evaluated,
                                           !.issues = IF evaluated /\ outcome = "FAIL"
                                                      THEN IssuesShownSection(checkRes)
                                                      ELSE <<>>]
    /\ UNCHANGED <<manualVerificationEntries, queueMsgs, nextMsgId, idNames, guildVars, acks,
                   notices, lastAck, auxVars>>

-----------------------------------------------------------------------------
(* Moderator dispositions: acknowledgeManualVerifyRes.                     *)

RemoveAt(seq, i) == [j \in 1..(Len(seq) - 1) |-> IF j < i THEN seq[j] ELSE seq[j + 1]]

\* lines 1407-1420: the function is called with an entry the caller found in
\* manualVerificationEntries and suspends on its three fetches.
AckStart(entry, responseId) ==
    /\ Len(acks) < MaxAcks
    /\ entry \in manualVerificationEntries
    /\ responseId \in {MANUAL_VERIFY_ACCEPT_ID, MANUAL_VERIFY_DENY_ID,
                       MANUAL_VERIFY_MODMAIL_ID, "other"}
    /\ acks' = Append(acks, [entry |-> entry, responseId |-> responseId])
    /\ NoCheckNow
    /\ UNCHANGED <<sessions, lastEnded, manualVerificationEntries, queueMsgs, nextMsgId, roles, idNames,
                   guildVars, notices>>

\* lines 1422-1593: what the call does once the fetches have resolved.
AckKindDenyGrants(entry, responseId) ==
    IF entry.userId \notin present THEN "PURGE_USER"
    ELSE IF ~sectionExists[entry.sectionId] /\ entry.sectionId # "MAIN" THEN "PURGE_SECTION"
    ELSE IF ~roleExists[entry.sectionId] THEN "NO_ROLE"
    ELSE IF responseId = MANUAL_VERIFY_MODMAIL_ID THEN "MODMAIL"
    ELSE IF responseId = MANUAL_VERIFY_DENY_ID THEN "ACCEPT"
    ELSE IF responseId = MANUAL_VERIFY_ACCEPT_ID THEN "ACCEPT"
    ELSE "UNKNOWN"

\* The same with the verified role looked up before the member and the section.
AckKindRoleFirst(entry, responseId) ==
    IF ~roleExists[entry.sectionId] THEN "NO_ROLE"
    ELSE IF entry.userId \notin present THEN "PURGE_USER"
    ELSE IF ~sectionExists[entry.sectionId] /\ entry.sectionId # "MAIN" THEN "PURGE_SECTION"
    ELSE IF responseId = MANUAL_VERIFY_MODMAIL_ID THEN "MODMAIL"
    ELSE IF responseId = MANUAL_VERIFY_DENY_ID THEN "DENY"
    ELSE IF responseId = MANUAL_VERIFY_ACCEPT_ID THEN "ACCEPT"
    ELSE "UNKNOWN"

AckKind(entry, responseId) ==
    IF entry.userId \notin present THEN "PURGE_USER"
    ELSE IF ~sectionExists[entry.sectionId] /\ entry.sectionId # "MAIN" THEN "PURGE_SECTION"
    ELSE IF ~roleExists[entry.sectionId] THEN "NO_ROLE"
    ELSE IF responseId = MANUAL_VERIFY_MODMAIL_ID THEN "MODMAIL"
    ELSE IF responseId = MANUAL_VERIFY_DENY_ID THEN "DENY"
    ELSE IF responseId = MANUAL_VERIFY_ACCEPT_ID THEN "ACCEPT"
    ELSE "UNKNOWN"

\* ModmailManager.startModmailWithUser, called at line 1493, is not part of the
\* sources at hand: it opens a discussion thread between the member and the
\* moderator and leaves the pending entries as they are.
startModmailWithUser(entries) == entries

\* The same filters with the final $pull of lines 1581-1588 applied to every
\* outcome that is not a purge.
PulledOnEveryOutcome(kind, entry) ==
    CASE kind = "PURGE_USER" -> {e \in manualVerificationEntries : e.userId = entry.userId}
      [] kind = "PURGE_SECTION" ->
            {e \in manualVerificationEntries : e.sectionId = entry.sectionId}
      [] OTHER ->
            {e \in manualVerificationEntries :
                e.sectionId = entry.sectionId /\ e.userId = entry.userId}

\* The $pull filters of lines 1427-1433, 1460-1466 and 1581-1588.
Pulled(kind, entry) ==
    CASE kind = "PURGE_USER" -> {e \in manualVerificationEntries : e.userId = entry.userId}
      [] kind = "PURGE_SECTION" ->
            {e \in manualVerificationEntries : e.sectionId = entry.sectionId}
      [] kind \in {"DENY", "ACCEPT"} ->
            {e \in manualVerificationEntries :
                e.sectionId = entry.sectionId /\ e.userId = entry.userId}
      [] OTHER -> {}

\* The outcomes after which the call returns false: lines 1453, 1468, 1476 and
\* 1576.
ReturnsFalse(kind) == kind \in {"PURGE_USER", "PURGE_SECTION", "NO_ROLE", "UNKNOWN"}

\* The review messages deleted: lines 1436-1451, 1510 and 1547.
DeletedMsgs(kind, entry) ==
    CASE kind = "PURGE_USER" ->
            {e.manualVerifyMsgId : e \in {x \in manualVerificationEntries :
                                              x.userId = entry.userId}}
      [] kind \in {"DENY", "ACCEPT"} -> {entry.manualVerifyMsgId}
      [] OTHER -> {}

AckFinish(i) ==
    /\ i \in DOMAIN acks
    /\ LET entry == acks[i].entry
           kind == AckKind(entry, acks[i].responseId)
       IN /\ manualVerificationEntries' =
                IF kind = "MODMAIL" THEN startModmailWithUser(manualVerificationEntries)
                ELSE manualVerificationEntries \ Pulled(kind, entry)
          /\ queueMsgs' = queueMsgs \ DeletedMsgs(kind, entry)
          /\ roles' = IF kind = "ACCEPT"
                      THEN roles \cup {<<entry.userId, entry.sectionId>>} ELSE roles
          /\ idNames' = IF kind = "ACCEPT" /\ entry.sectionId = "MAIN"
                        THEN [idNames EXCEPT ![entry.userId] = @ \cup {entry.ign}]
                        ELSE idNames
          /\ notices' = CASE kind = "ACCEPT" ->
                                notices \cup {<<entry.manualVerifyMsgId, "accepted">>}
                          [] kind = "DENY" ->
                                notices \cup {<<entry.manualVerifyMsgId, "denied">>}
                          [] OTHER -> notices
          /\ lastAck' = [msgId |-> entry.manualVerifyMsgId, kind |-> kind]
    /\ acks' = RemoveAt(acks, i)
    /\ UNCHANGED <<evalVars, sessions, lastEnded, nextMsgId, guildVars, auxVars>>

-----------------------------------------------------------------------------
(* Changes of the guild made outside the verification manager.             *)

MemberLeaves(m) ==
    /\ m \in present
    /\ present' = present \ {m}
    /\ NoCheckNow
    /\ UNCHANGED <<sessions, lastEnded, manualVerificationEntries, queueMsgs, nextMsgId, roles, idNames,
                   sectionExists, roleExists, checkReqFlag, manualChannel, acks, notices>>

SectionDeleted(sec) ==
    /\ sec # "MAIN"
    /\ sectionExists[sec]
    /\ sectionExists' = [sectionExists EXCEPT ![sec] = FALSE]
    /\ NoCheckNow
    /\ UNCHANGED <<sessions, lastEnded, manualVerificationEntries, queueMsgs, nextMsgId, roles, idNames,
                   present, roleExists, checkReqFlag, manualChannel, acks, notices>>

\* The manual verification channel of a section is deleted (it is looked up at
\* lines 2091-2094 and 1337).
ChannelDeleted(sec) ==
    /\ manualChannel[sec]
    /\ manualChannel' = [manualChannel EXCEPT ![sec] = FALSE]
    /\ NoCheckNow
    /\ UNCHANGED <<sessions, lastEnded, manualVerificationEntries, queueMsgs, nextMsgId, roles, idNames,
                   present, sectionExists, roleExists, checkReqFlag, acks, notices>>

RoleDeleted(sec) ==
    /\ roleExists[sec]
    /\ roleExists' = [roleExists EXCEPT ![sec] = FALSE]
    /\ NoCheckNow
    /\ UNCHANGED <<sessions, lastEnded, manualVerificationEntries, queueMsgs, nextMsgId, roles, idNames,
                   present, sectionExists, checkReqFlag, manualChannel, acks, notices>>

-----------------------------------------------------------------------------
(* Specification of the verification sessions and of the review queue they *)
(* feed.                                                                   *)

Init ==
    /\ evalInput = NoRequirementsInput
    /\ evalResult = NoResult
    /\ lastCheck = NoCheck
    /\ sessions = EmptyBag
    /\ lastEnded = NoEnd
    /\ manualVerificationEntries = {}
    /\ queueMsgs = {}
    /\ nextMsgId = 1
    /\ roles = {}
    /\ idNames \in {[m \in Members |-> IF m = "u2" THEN {"Bob"} ELSE {}],
                    [m \in Members |-> IF m = "u2" THEN {"Bob"} ELSE {"Alice"}]}
    /\ present = Members
    /\ sectionExists = [sec \in Sections |-> TRUE]
    /\ roleExists = [sec \in Sections |-> TRUE]
    /\ checkReqFlag \in {[sec \in Sections |-> b] : b \in BOOLEAN}
    /\ manualChannel = [sec \in Sections |-> TRUE]
    /\ acks = <<>>
    /\ notices = {}
    /\ lastAck = NoAck
    /\ AuxIdle

Next ==
    \/ \E m \in Verifiers, sec \in Sections : StartVerify(m, sec)
    \/ \E ses \in DOMAIN sessions, name \in Names : SelectName(ses, name)
    \/ \E ses \in DOMAIN sessions : SkipSelect(ses)
    \/ \E ses \in DOMAIN sessions, result \in {"TIMED_OUT", "CANCELED"} : SelectEnd(ses, result)
    \/ \E ses \in DOMAIN sessions, name \in Names : TypeName(ses, name)
    \/ \E ses \in DOMAIN sessions, result \in {"TIMED_OUT", "CANCELED"} : TypeEnd(ses, result)
    \/ \E ses \in DOMAIN sessions, k \in Slots, id \in {CHECK_PROFILE_ID, CANCEL_ID} :
            Collect(ses, k, id)
    \/ \E ses \in DOMAIN sessions, k \in Slots : HandleCancel(ses, k)
    \/ \E ses \in DOMAIN sessions, k \in Slots : HandleCheck(ses, k)
    \/ \E ses \in DOMAIN sessions : CollectorTimeout(ses)
    \/ \E ses \in DOMAIN sessions, k \in Slots : CheckFinish(ses, k)
    \/ \E ses \in DOMAIN sessions : SectionCheck(ses)
    \/ \E ses \in DOMAIN sessions, selected \in {NO_MANUAL_VERIFY_ID, MANUAL_VERIFY_ID} :
            PromptChoice(ses, selected)
    \/ \E ses \in DOMAIN sessions, k \in Slots : PromptTimeout(ses, k)
    \/ \E ses \in DOMAIN sessions, k \in Slots : PushEntry(ses, k)

Spec == Init /\ [][Next]_vars

\* The same with repeated attempts of a member for one section.
NextRace ==
    \/ Next
    \/ \E m \in Verifiers, sec \in Sections : VerifyAgain(m, sec)

SpecRace == Init /\ [][NextRace]_vars

\* The same in a guild whose manual verification channels may be deleted.
NextChannel ==
    \/ Next
    \/ \E sec \in Sections : ChannelDeleted(sec)

SpecChannel == Init /\ [][NextChannel]_vars

\* The main-scope sessions of a member who types the name, with the time of
\* each session's collector.
InitClock ==
    /\ Init
    /\ idNames["u1"] = {}

NextClock ==
    \/ \E m \in Verifiers : StartVerify(m, "MAIN")
    \/ \E ses \in DOMAIN sessions, name \in Names : TypeName(ses, name)
    \/ \E ses \in DOMAIN sessions, k \in Slots, id \in {CHECK_PROFILE_ID, CANCEL_ID} :
            Collect(ses, k, id)
    \/ \E ses \in DOMAIN sessions, k \in Slots : HandleCancel(ses, k)
    \/ \E ses \in DOMAIN sessions, k \in Slots : HandleCheck(ses, k)
    \/ \E ses \in DOMAIN sessions : CollectorTimeout(ses)
    \/ \E ses \in DOMAIN sessions, k \in Slots : CheckFinish(ses, k)
    \/ \E ses \in DOMAIN sessions, t \in Instants : Tick(ses, t)

SpecClock == InitClock /\ [][NextClock]_vars

\* C3: whenever a session evaluates the requirements of a section whose
\* checkRequirements master flag is false, the evaluation returns PASS with
\* fatalIssues, manualIssues and taIssues all empty.
C3_MasterFlagOffPasses ==
    (evalResult.conclusion # "NONE" /\ lastCheck.section # ""
        /\ ~checkReqFlag[lastCheck.section]) =>
            /\ evalResult.conclusion = "PASS"
            /\ evalResult.fatalIssues = <<>>
            /\ evalResult.manualIssues = <<>>
            /\ evalResult.taIssues = <<>>

\* A profile check of a main-scope session that reached the evaluator.
VerifiedPass(m) ==
    /\ lastCheck.member = m
    /\ lastCheck.section = "MAIN"
    /\ lastCheck.requestOk
    /\ lastCheck.codeFound
    /\ ~lastCheck.blacklisted
    /\ evalResult = checkRequirements(evalInput)
    /\ evalResult.conclusion = "PASS"

\* C5: a step of a session that adds the main section's verified role to a
\* member, or adds a name to the member's registered names, is the end of a
\* profile check of that member's main-scope session in which the player data
\* was obtained, its description contained the session's code, no blacklist
\* entry matched and checkRequirements returned PASS; no other step (cancel,
\* timeout, FAIL, TRY_AGAIN, MANUAL, code not found, failed fetch) does either.
C5_GrantOnlyAfterVerifiedPass ==
    [][\A m \in Members :
          (<<m, "MAIN">> \in roles' \ roles \/ idNames'[m] # idNames[m]) => VerifiedPass(m)']_vars

\* A main-scope session ended by a check that found the code and passed: the
\* member has the role and the verified name is registered.
C5_Witness ==
    /\ VerifiedPass("u1")
    /\ lastEnded.member = "u1"
    /\ lastEnded.section = "MAIN"
    /\ lastEnded.outcome = "SUCCESS"
    /\ <<"u1", "MAIN">> \in roles
    /\ "Alice" \in idNames["u1"]

\* Sessions now alive for the member and the section.
SessionsOf(m, sec) ==
    SumOver([ses \in DOMAIN sessions |->
                IF ses.member = m /\ ses.section = sec THEN sessions[ses] ELSE 0],
            DOMAIN sessions)

\* C6: while a session for a (member, section) key is alive, a second attempt
\* of the member for the section creates no second session: no key ever has
\* two sessions alive.
C6_OneSessionPerKey ==
    \A m \in Members, sec \in Sections : SessionsOf(m, sec) <= 1

\* C7: manualVerificationEntries holds at most one entry per (userId,
\* sectionId).
C7_OneEntryPerKey ==
    \A e1, e2 \in manualVerificationEntries :
        (e1.userId = e2.userId /\ e1.sectionId = e2.sectionId) => e1 = e2

\* Consent prompts open, and review messages posted but not yet stored, in the
\* sessions of bag B for the member and the section.
PromptsOf(B, m, sec) ==
    SumOver([ses \in DOMAIN B |->
                IF ses.member = m /\ ses.section = sec
                THEN B[ses] * Cardinality(Prompts(ses)) ELSE 0],
            DOMAIN B)

PostedOf(B, m, sec) ==
    SumOver([ses \in DOMAIN B |->
                IF ses.member = m /\ ses.section = sec
                THEN B[ses] * Cardinality({k \in Slots : ses.h[k].pc = "posted"}) ELSE 0],
            DOMAIN B)

EntriesOf(m, sec) == {e \in manualVerificationEntries : e.userId = m /\ e.sectionId = sec}

\* The member's session for the section has failed: it ended so in this step,
\* or it is still alive (a callback is running) with that result.
SessionFailed(m, sec) ==
    \/ lastEnded.member = m /\ lastEnded.section = sec /\ lastEnded.outcome = "FAIL"
    \/ \E ses \in DOMAIN sessions :
            ses.member = m /\ ses.section = sec /\ ses.outcome = "FAIL"

\* C8: for every member and section, (1) a consent prompt opens only in a step
\* in which checkRequirements returned MANUAL for that member and section;
\* (2) a review message is posted only as a prompt closes by the Accept button,
\* and it is then in the manual verification channel; (3) an entry is stored
\* only for a posted review message; (4) a prompt that closes by Deny or by its
\* two minutes running out stores no entry, posts nothing and leaves the
\* session failed.
C8_EntryOnlyAfterManualAndAccept ==
    [][\A m \in Members, sec \in Sections :
          LET prompts == PromptsOf(sessions, m, sec)
              promptsAfter == PromptsOf(sessions', m, sec)
              posted == PostedOf(sessions, m, sec)
              postedAfter == PostedOf(sessions', m, sec)
          IN /\ promptsAfter > prompts =>
                   /\ evalResult'.conclusion = "MANUAL"
                   /\ lastCheck'.member = m
                   /\ lastCheck'.section = sec
             /\ postedAfter > posted =>
                   /\ promptsAfter < prompts
                   /\ \A ses \in DOMAIN sessions', k \in Slots :
                         ses.h[k].pc = "posted" =>
                             /\ ses.h[k].customId = MANUAL_VERIFY_ID
                             /\ ses.h[k].msgId \in queueMsgs'
             /\ EntriesOf(m, sec)' # EntriesOf(m, sec) =>
                   /\ postedAfter < posted
                   /\ \A e \in EntriesOf(m, sec)' \ EntriesOf(m, sec) :
                         e.manualVerifyMsgId \in queueMsgs
             /\ (promptsAfter < prompts /\ postedAfter = posted) =>
                   /\ manualVerificationEntries' = manualVerificationEntries
                   /\ queueMsgs' = queueMsgs
                   /\ SessionFailed(m, sec)']_vars

\* The member accepted manual review in the main section, whose entry is
\* stored, and then declined it (or let the prompt expire) in section S1, for
\* which nothing is stored and nothing was posted.
C8_Witness ==
    /\ \E e \in EntriesOf("u1", "MAIN") : e.manualVerifyMsgId \in queueMsgs
    /\ lastEnded.member = "u1"
    /\ lastEnded.section = "S1"
    /\ lastEnded.prev = "MANUAL_PROMPT"
    /\ lastEnded.outcome = "FAIL"
    /\ EntriesOf("u1", "S1") = {}
    /\ Cardinality(queueMsgs) = 1

-----------------------------------------------------------------------------
(* Specification of the review queue alone: entries are pending and        *)
(* moderators dispose of them while members leave and sections and roles   *)
(* are deleted.                                                            *)

PendingEntries ==
    {[userId |-> "u1", ign |-> "Alice", manualVerifyMsgId |-> 1, sectionId |-> "MAIN"],
     [userId |-> "u1", ign |-> "Alice", manualVerifyMsgId |-> 2, sectionId |-> "S1"],
     [userId |-> "u2", ign |-> "Bob", manualVerifyMsgId |-> 3, sectionId |-> "S1"]}

InitReview ==
    /\ evalInput = NoRequirementsInput
    /\ evalResult = NoResult
    /\ lastCheck = NoCheck
    /\ sessions = EmptyBag
    /\ lastEnded = NoEnd
    /\ manualVerificationEntries = PendingEntries
    /\ queueMsgs = {e.manualVerifyMsgId : e \in PendingEntries}
    /\ nextMsgId = 4
    /\ roles = {}
    /\ idNames = [m \in Members |-> {}]
    /\ present = Members
    /\ sectionExists = [sec \in Sections |-> TRUE]
    /\ roleExists = [sec \in Sections |-> TRUE]
    /\ checkReqFlag = [sec \in Sections |-> TRUE]
    /\ manualChannel = [sec \in Sections |-> TRUE]
    /\ acks = <<>>
    /\ notices = {}
    /\ lastAck = NoAck
    /\ AuxIdle

NextReview ==
    \/ \E entry \in manualVerificationEntries,
          responseId \in {MANUAL_VERIFY_ACCEPT_ID, MANUAL_VERIFY_DENY_ID,
                          MANUAL_VERIFY_MODMAIL_ID, "other"} : AckStart(entry, responseId)
    \/ \E i \in DOMAIN acks : AckFinish(i)
    \/ \E m \in Members : MemberLeaves(m)
    \/ \E sec \in Sections : SectionDeleted(sec)
    \/ \E sec \in Sections : RoleDeleted(sec)

SpecReview == InitReview /\ [][NextReview]_vars

\* The dispositions that took effect for the entry of review message id.
Accepted(id) == <<id, "accepted">> \in notices
Denied(id) == <<id, "denied">> \in notices

\* C9: for any one entry at most one final disposition takes effect under any
\* interleaving of calls of acknowledgeManualVerifyRes: no entry is both
\* accepted (role granted, member told so) and denied (member told so).
C9_OneDisposition ==
    \A e \in PendingEntries : ~(Accepted(e.manualVerifyMsgId) /\ Denied(e.manualVerifyMsgId))

\* The entry, the member and the section of a finishing call are in order: the
\* member is present, the section exists (or is the main one) and its verified
\* role exists.
Disposable(entry) ==
    /\ entry.userId \in present
    /\ sectionExists[entry.sectionId] \/ entry.sectionId = "MAIN"
    /\ roleExists[entry.sectionId]

\* C10: a call of acknowledgeManualVerifyRes that finishes for an entry whose
\* member is present and whose section has a verified role: with Accept the
\* member has the section's role, the name is registered when the section is
\* the main one, the member is notified and no entry for (userId, sectionId)
\* is left; with Deny the member is notified, no entry for (userId, sectionId)
\* is left, and roles and registered names are unchanged.  A step adds a role
\* only if it is such an Accept.
C10_AcceptGrantsDenyDoesNot ==
    [][\A i \in DOMAIN acks :
          (Len(acks') < Len(acks) /\ acks' = RemoveAt(acks, i)) =>
            LET entry == acks[i].entry
                responseId == acks[i].responseId
                left == {e \in manualVerificationEntries' :
                            e.userId = entry.userId /\ e.sectionId = entry.sectionId}
            IN /\ (Disposable(entry) /\ responseId = MANUAL_VERIFY_ACCEPT_ID) =>
                     /\ <<entry.userId, entry.sectionId>> \in roles'
                     /\ entry.sectionId = "MAIN" => entry.ign \in idNames'[entry.userId]
                     /\ entry.sectionId # "MAIN" => idNames' = idNames
                     /\ <<entry.manualVerifyMsgId, "accepted">> \in notices'
                     /\ left = {}
               /\ (Disposable(entry) /\ responseId = MANUAL_VERIFY_DENY_ID) =>
                     /\ <<entry.manualVerifyMsgId, "denied">> \in notices'
                     /\ left = {}
                     /\ roles' = roles
                     /\ idNames' = idNames
               /\ roles' # roles =>
                     Disposable(entry) /\ responseId = MANUAL_VERIFY_ACCEPT_ID]_vars

\* Both dispositions were applied: the main-section entry of u1 was accepted
\* (role, name, notice, entry gone) and the S1 entry of u2 was denied (notice,
\* entry gone, no role).
C10_Witness ==
    /\ Accepted(1)
    /\ <<"u1", "MAIN">> \in roles
    /\ "Alice" \in idNames["u1"]
    /\ Denied(3)
    /\ <<"u2", "S1">> \notin roles
    /\ \A e \in manualVerificationEntries : e.manualVerifyMsgId = 2

\* C11: a call of acknowledgeManualVerifyRes that finishes for an entry whose
\* member is present and whose section exists (or is the main one), and that
\* starts a modmail thread, carries an unrecognised response id, or finds the
\* section's verified role missing, leaves manualVerificationEntries as it
\* was, deletes no review message, grants no role, registers no name and sends
\* no accept/deny notice.
C11_NonFinalKeepsEntry ==
    [][\A i \in DOMAIN acks :
          (Len(acks') < Len(acks) /\ acks' = RemoveAt(acks, i)) =>
            LET entry == acks[i].entry
                responseId == acks[i].responseId
            IN (/\ entry.userId \in present
                /\ sectionExists[entry.sectionId] \/ entry.sectionId = "MAIN"
                /\ \/ responseId = MANUAL_VERIFY_MODMAIL_ID
                   \/ responseId \notin {MANUAL_VERIFY_ACCEPT_ID, MANUAL_VERIFY_DENY_ID}
                   \/ ~roleExists[entry.sectionId]) =>
                    /\ manualVerificationEntries' = manualVerificationEntries
                    /\ queueMsgs' = queueMsgs
                    /\ roles' = roles
                    /\ idNames' = idNames
                    /\ notices' = notices]_vars

\* A call for the main-section entry of u1 was refused because the verified
\* role of the main section is gone; the entry is still pending with its
\* review message, and u1 got neither the role nor a notice.
C11_Witness ==
    /\ lastAck = [msgId |-> 1, kind |-> "NO_ROLE"]
    /\ "u1" \in present
    /\ \E e \in manualVerificationEntries : e.manualVerifyMsgId = 1
    /\ 1 \in queueMsgs
    /\ <<"u1", "MAIN">> \notin roles
    /\ ~Accepted(1)
    /\ ~Denied(1)

\* The same after a call that started a modmail thread, and after one with an
\* unrecognised response id.
C11_WitnessModmail ==
    /\ lastAck = [msgId |-> 1, kind |-> "MODMAIL"]
    /\ \E e \in manualVerificationEntries : e.manualVerifyMsgId = 1

C11_WitnessUnknown ==
    /\ lastAck = [msgId |-> 1, kind |-> "UNKNOWN"]
    /\ \E e \in manualVerificationEntries : e.manualVerifyMsgId = 1
\* C12: a call of acknowledgeManualVerifyRes that finishes for an entry whose
\* member has left the guild removes every entry of that userId, in every
\* section, and no entry of another user, whether or not the section's verified
\* role exists; one that finishes for an entry of a present member whose
\* section is not the main one and no longer exists removes every entry of
\* that sectionId and no entry of another section.  Either call grants no
\* role, registers no name, sends no accept/deny notice and returns false.
C12_PurgeRemovesExactlyMatching ==
    [][\A i \in DOMAIN acks :
          (Len(acks') < Len(acks) /\ acks' = RemoveAt(acks, i)) =>
            LET entry == acks[i].entry
                gone == entry.userId \notin present
                orphan == /\ entry.userId \in present
                          /\ ~sectionExists[entry.sectionId]
                          /\ entry.sectionId # "MAIN"
            IN /\ gone => manualVerificationEntries' =
                            {e \in manualVerificationEntries : e.userId # entry.userId}
               /\ orphan => manualVerificationEntries' =
                            {e \in manualVerificationEntries : e.sectionId # entry.sectionId}
               /\ (gone \/ orphan) =>
                     /\ roles' = roles
                     /\ idNames' = idNames
                     /\ notices' = notices
                     /\ ReturnsFalse(lastAck'.kind)]_vars

\* u1 left after the verified role of section S1 was deleted, and a call for
\* u1's S1 entry has just purged both entries of u1, in MAIN and in S1, with
\* their review messages; the S1 entry of u2 is still pending.
C12_Witness ==
    /\ lastAck = [msgId |-> 2, kind |-> "PURGE_USER"]
    /\ "u1" \notin present
    /\ ~roleExists["S1"]
    /\ manualVerificationEntries = {e \in PendingEntries : e.userId = "u2"}
    /\ queueMsgs = {3}
    /\ roles = {}
    /\ notices = {}

\* Section S1 was deleted and a call for u2's S1 entry has just purged both S1
\* entries; the main-section entry of u1 is still pending.
C12_WitnessSection ==
    /\ lastAck = [msgId |-> 3, kind |-> "PURGE_SECTION"]
    /\ ~sectionExists["S1"]
    /\ manualVerificationEntries = {e \in PendingEntries : e.sectionId = "MAIN"}
    /\ roles = {}
    /\ notices = {}
\* C13: when a check of a main-scope session ends because the player data
\* could not be obtained, the session is still alive, waiting for the proof
\* with its collector active, so that a later Check Profile is processed.
C13_FailedFetchKeepsSession ==
    (lastCheck.member # "" /\ lastCheck.section = "MAIN" /\ ~lastCheck.requestOk) =>
        \E ses \in DOMAIN sessions :
            /\ ses.member = lastCheck.member
            /\ ses.section = "MAIN"
            /\ ses.pc = "awaitProof"
            /\ ses.collector = "active"
\* The last step completed a check of member m's main-scope session that asks
\* the member to try again: the code was not in the description, the name
\* history could not be obtained, or checkRequirements returned TRY_AGAIN.
RetryCheck(m) ==
    /\ lastCheck.member = m
    /\ lastCheck.section = "MAIN"
    /\ lastCheck.requestOk
    /\ \/ ~lastCheck.codeFound
       \/ ~lastCheck.historyOk
       \/ ~lastCheck.blacklisted /\ evalResult.conclusion = "TRY_AGAIN"

\* The session waits for the proof as it did when the code was first shown:
\* open collector, Check Profile and Cancel offered, a callback free to take the
\* next press, and the same name and code.
AwaitsProofAgain(new, ses) ==
    /\ new.member = ses.member
    /\ new.section = ses.section
    /\ new.pc = "awaitProof"
    /\ new.collector = "active"
    /\ new.buttons = {CHECK_PROFILE_ID, CANCEL_ID}
    /\ new.outcome = "NONE"
    /\ new.nameToVerify = ses.nameToVerify
    /\ new.code = ses.code
    /\ \E k \in Slots : FreeSlot(new, k)

\* The step ran in session ses, and new is what it left of it.
Stepped(ses) == CopiesIn(ses, sessions') < CopiesIn(ses, sessions)
SteppedTo(new) == CopiesIn(new, sessions') > CopiesIn(new, sessions)

\* C14 as stated: a step that completes such a check of a session whose
\* collector is open leaves the session waiting for the proof with Check
\* Profile and Cancel offered again.
C14_RetryReturnsToAwaitProof ==
    [][\A m \in Members : RetryCheck(m)' =>
          \A ses \in DOMAIN sessions :
              (Stepped(ses) /\ ses.collector = "active") =>
                  \E new \in DOMAIN sessions' : SteppedTo(new) /\ AwaitsProofAgain(new, ses)]_vars

\* C14 amended: the same provided the direct message that tells the member to
\* look at the embed was sent; when it could not be sent the step stops the
\* collector and the session is canceled, without buttons.
C14_RetryReturnsWhenMessaged ==
    [][\A m \in Members : RetryCheck(m)' =>
          \A ses \in DOMAIN sessions :
              (Stepped(ses) /\ ses.collector = "active") =>
                  /\ lastCheck'.dmOk =>
                        \E new \in DOMAIN sessions' : SteppedTo(new) /\ AwaitsProofAgain(new, ses)
                  /\ ~lastCheck'.dmOk =>
                        \/ /\ lastEnded'.member = m
                           /\ lastEnded'.outcome = "CANCELED"
                           /\ lastEnded'.buttons = {}
                        \/ \E new \in DOMAIN sessions' :
                                /\ SteppedTo(new)
                                /\ new.collector = "ended"
                                /\ new.outcome = "CANCELED"
                                /\ new.buttons = {}]_vars

\* u1's check found the player data but not the code, the message was sent,
\* and the session waits for the proof again with both buttons.
C14_Witness ==
    /\ RetryCheck("u1")
    /\ ~lastCheck.codeFound
    /\ lastCheck.dmOk
    /\ \E ses \in DOMAIN sessions :
          /\ ses.member = "u1"
          /\ ses.pc = "awaitProof"
          /\ ses.collector = "active"
          /\ ses.buttons = {CHECK_PROFILE_ID, CANCEL_ID}

\* The same after a check that checkRequirements answered with TRY_AGAIN.
C14_WitnessTryAgain ==
    /\ RetryCheck("u1")
    /\ evalResult.conclusion = "TRY_AGAIN"
    /\ lastCheck.dmOk
    /\ \E ses \in DOMAIN sessions : ses.member = "u1" /\ ses.pc = "awaitProof"
C16_TimedOutClosesPrompt ==
    lastEnded.outcome = "TIMED_OUT" =>
        /\ SessionsOf(lastEnded.member, lastEnded.section) = 0
        /\ CHECK_PROFILE_ID \notin lastEnded.buttons
\* The session waits for the member: for the choice of a known name, for a
\* typed name, for Check Profile, or for the answer to the consent prompt.
WaitState(ses) ==
    \/ ses.pc \in {"selectName", "typeName"}
    \/ ses.pc = "awaitProof" /\ ses.collector = "active" /\ ses.buttons # {}
    \/ Prompts(ses) # {}

\* The member can cancel: by the Cancel button, or by typing "-cancel" where a
\* name is typed.
CancelOffered(ses) == ses.pc = "typeName" \/ CANCEL_ID \in ses.buttons

\* C17: in every wait-state of a session a cancel by the member is accepted.
C17_CancelInEveryWaitState ==
    \A ses \in DOMAIN sessions : WaitState(ses) => CancelOffered(ses)
\* The blacklist entries whose name is, in lower case, one of the names.
EntriesNaming(names) ==
    {i \in DOMAIN blacklistedUsers :
        \E n \in names : blacklistedUsers[i].lowercaseIgn = toLowerCase(n)}

\* C18: a step that completes a check of a main-scope session in which the
\* fetched name, a name of the name history or a name associated with the
\* member is, in lower case, the name of a blacklist entry: checkRequirements
\* is not run, no role is added and no name registered, the session's
\* collector is stopped and the session is over as FAIL without buttons, and
\* the moderation id shown and logged is the actionId of such an entry.
C18_BlacklistHitFails ==
    [][\A m \in Members :
          (lastCheck'.member = m /\ lastCheck'.section = "MAIN"
                /\ EntriesNaming(lastCheck'.names) # {}) =>
              /\ evalResult' = NoResult
              /\ roles' = roles
              /\ idNames' = idNames
              /\ \E i \in EntriesNaming(lastCheck'.names) :
                    lastCheck'.modId = blacklistedUsers[i].actionId
              /\ \A new \in DOMAIN sessions' :
                    SteppedTo(new) =>
                        new.collector = "ended" /\ new.outcome = "FAIL" /\ new.buttons = {}
              /\ (\A new \in DOMAIN sessions' : ~SteppedTo(new)) =>
                    /\ lastEnded'.member = m
                    /\ lastEnded'.outcome = "FAIL"
                    /\ lastEnded'.buttons = {}]_vars

\* u1 verifies as "Alice"; the name history of the profile holds "Bob", and
\* "bob" is blacklisted: the session is over as FAIL, the member has no role,
\* checkRequirements did not run and the moderation id of the entry was shown.
C18_Witness ==
    /\ lastCheck.member = "u1"
    /\ lastCheck.section = "MAIN"
    /\ "Bob" \in lastCheck.names
    /\ lastCheck.blacklisted
    /\ lastCheck.modId = "mod-1"
    /\ evalResult = NoResult
    /\ lastEnded.member = "u1"
    /\ lastEnded.outcome = "FAIL"
    /\ <<"u1", "MAIN">> \notin roles
    /\ SessionsOf("u1", "MAIN") = 0
\* The issues that made the evaluation FAIL: the fatal ones, or, with none of
\* them, the manual ones that no manual verification channel could take.
CausesOfFail(checkRes) ==
    IF Len(checkRes.fatalIssues) = 0 THEN checkRes.manualIssues ELSE checkRes.fatalIssues

\* C19: when checkRequirements returned FAIL in a main-scope or a section
\* session, the session is over as FAIL and the issues shown to the member and
\* logged are not empty and hold every issue that made the evaluation FAIL.
C19_FailShowsItsIssues ==
    (lastCheck.member # "" /\ evalResult.conclusion = "FAIL") =>
        /\ SessionFailed(lastCheck.member, lastCheck.section)
        /\ lastCheck.issues # <<>>
        /\ \A i \in DOMAIN CausesOfFail(evalResult) :
              \E j \in DOMAIN lastCheck.issues :
                  lastCheck.issues[j] = CausesOfFail(evalResult)[i]
\* The live characters of the player data: those whose statsMaxed is known.
LiveCharacters(resp) == SelectSeq(resp.characters, LAMBDA c : c # -1)

\* The tier a character of tier T is counted for when its own tier needs no
\* more: the first below T, from T - 1 down to 0, that still needs some; -1
\* when there is none.
FirstBelow(neededStats, T) ==
    LET lower == {t \in 0..(T - 1) : neededStats[t + 1] > 0}
    IN IF lower = {} THEN -1
       ELSE CHOOSE t \in lower : \A u \in lower : u <= t

C20_WitnessLeft ==
    /\ Returned
    /\ GuildFatal(evalInput.verifReq, evalInput.resp) = <<>>
    /\ evalInput.verifReq.characters.checkThis
    /\ evalInput.verifReq.characters.statsNeeded = <<2, 0, 0, 0, 0, 0, 0, 0>>
    /\ evalInput.resp.characters = <<-1, 2>>
    /\ RemainingStats(evalInput.verifReq, evalInput.resp, evalInput.gyHist)
            = <<1, 0, 0, 0, 0, 0, 0, 0>>
    /\ \E i \in DOMAIN evalResult.manualIssues :
          evalResult.manualIssues[i].key = "Stats Requirement Not Fulfilled"

-----------------------------------------------------------------------------
(* The blocks of checkRequirements, one by one (SpecDetail).               *)

\* The call returned and the guild block did not end it.
PastGuild == Returned /\ evalResult.fatalIssues = <<>>

\* The manual (try-again) issues of the result with key k.
ManualWith(k) == {i \in DOMAIN evalResult.manualIssues : evalResult.manualIssues[i].key = k}
TaWith(k) == {i \in DOMAIN evalResult.taIssues : evalResult.taIssues[i].key = k}

\* The tiers of the characters the character block counts: the live ones, and
\* with checkPastDeaths and an available summary the dead ones.
CountedTiers ==
    LET live == LiveCharacters(evalInput.resp)
        stats == evalInput.gyHist.statsCharacters
    IN {live[i] : i \in DOMAIN live}
       \cup (IF evalInput.verifReq.characters.checkPastDeaths /\ evalInput.gyHist.ok
             THEN {t \in 0..NUMBER_OF_STATS :
                      \E k \in DOMAIN stats : (t + 1) \in DOMAIN stats[k] /\ stats[k][t + 1] > 0}
             ELSE {})

\* C21: the character block never counts a character for a tier above its
\* own: a tier t that needs some and lies above the tier of every counted
\* character (live, or dead with checkPastDeaths) is left needing all of it,
\* so the one manual issue "Stats Requirement Not Fulfilled" is raised and
\* shows exactly needed[t] for it; with needed = [0,1,0,...] and one live
\* character of tier 0 the issue shows [0,1,0,...].
C21_NeverCascadesUpward ==
    LET needed == evalInput.verifReq.characters.statsNeeded
        raised == ManualWith("Stats Requirement Not Fulfilled")
    IN (PastGuild /\ evalInput.verifReq.characters.checkThis) =>
          /\ Cardinality(raised) <= 1
          /\ \A t \in 0..(NUMBER_OF_STATS - 1) :
                (needed[t + 1] > 0 /\ \A c \in CountedTiers : c < t) =>
                    /\ raised # {}
                    /\ \A i \in raised : evalResult.manualIssues[i].detail[t + 1] = needed[t + 1]
          /\ (needed = NeededAt(1, 1) /\ CountedTiers = {0}) =>
                \E i \in raised : evalResult.manualIssues[i].detail = NeededAt(1, 1)

\* needed = [0,1,0,...] was evaluated against one live character of tier 0.
C21_Witness ==
    /\ PastGuild
    /\ evalInput.verifReq.characters.checkThis
    /\ ~evalInput.verifReq.characters.checkPastDeaths
    /\ evalInput.verifReq.characters.statsNeeded = NeededAt(1, 1)
    /\ evalInput.resp.characters = <<0>>
    /\ ManualWith("Stats Requirement Not Fulfilled") # {}

\* needed = [0,1,0,...] was evaluated against two dead characters of tier 0.
C21_WitnessDead ==
    /\ PastGuild
    /\ evalInput.verifReq.characters.checkThis
    /\ evalInput.verifReq.characters.checkPastDeaths
    /\ evalInput.verifReq.characters.statsNeeded = NeededAt(1, 1)
    /\ evalInput.gyHist.ok
    /\ evalInput.gyHist.statsCharacters = <<DeadAt(0, 2)>>
    /\ LiveCharacters(evalInput.resp) = <<>>
    /\ ManualWith("Stats Requirement Not Fulfilled") # {}

\* The exaltation block ran in onOneChar mode on available data.
OnOneCharChecked ==
    /\ PastGuild
    /\ evalInput.verifReq.exaltations.checkThis
    /\ evalInput.verifReq.exaltations.onOneChar
    /\ evalInput.exaltData.ok

\* Some one character of the exaltation data has, for every stat, at least the
\* minimum of that stat.
OneCharacterMeetsAll ==
    LET minimum == evalInput.verifReq.exaltations.minimum
        exaltations == evalInput.exaltData.exaltations
    IN \E i \in DOMAIN exaltations :
          \A l \in DOMAIN exaltations[i] : exaltations[i][l] >= minimum[LONG_STAT_TO_SHORT[l]]

\* C22 as stated: in onOneChar mode the exaltation requirement is satisfied (no
\* manual issue "Exaltation Requirement Not Satisfied") if and only if some one
\* character meets every per-stat minimum; when it is not, exactly one such
\* issue is added.
C22_OneCharacterMeetsAll ==
    LET raised == ManualWith("Exaltation Requirement Not Satisfied")
    IN OnOneCharChecked =>
          /\ (raised = {} <=> OneCharacterMeetsAll)
          /\ Cardinality(raised) <= 1

\* C22 amended: the requirement is satisfied if and only if some one character
\* meets every per-stat minimum or no per-stat minimum is positive (then it is
\* satisfied with no character at all); exaltations of different characters
\* are never added up, and when it is not satisfied exactly one manual issue
\* is added.
C22_OneCharacterOrNoMinimum ==
    LET raised == ManualWith("Exaltation Requirement Not Satisfied")
        minimum == evalInput.verifReq.exaltations.minimum
    IN OnOneCharChecked =>
          /\ raised = {} <=> (OneCharacterMeetsAll \/ \A d \in ShortStats : minimum[d] <= 0)
          /\ Cardinality(raised) <= 1

\* {att: 5, def: 5} was checked against one character with att 5 and another
\* with def 5, and the issue was raised.
C22_Witness ==
    /\ OnOneCharChecked
    /\ evalInput.verifReq.exaltations.minimum = [ZeroExalt EXCEPT !["att"] = 5, !["def"] = 5]
    /\ evalInput.exaltData.exaltations = <<[ZeroEntry EXCEPT !["attack"] = 5],
                                           [ZeroEntry EXCEPT !["defense"] = 5]>>
    /\ Cardinality(ManualWith("Exaltation Requirement Not Satisfied")) = 1

\* {att: 5, def: 5} was checked against a character that has both, listed
\* after one that has not, and no issue was raised.
C22_WitnessMet ==
    /\ OnOneCharChecked
    /\ OneCharacterMeetsAll
    /\ ~(\A i \in DOMAIN evalInput.exaltData.exaltations :
            EntryPasses(NeededExalt(evalInput.verifReq), evalInput.exaltData.exaltations[i]))
    /\ ManualWith("Exaltation Requirement Not Satisfied") = {}

\* The character, graveyard and exaltation requirements of the input are each
\* off or met, with every source they read available.
DetailBlocksMet ==
    /\ CharacterIssues(evalInput.verifReq, evalInput.resp, evalInput.gyHist) = <<>>
    /\ GraveyardIssues(evalInput.verifReq, evalInput.gyHist, evalInput.loggedInfo) = <<<<>>, <<>>>>
    /\ ExaltationIssues(evalInput.verifReq, evalInput.exaltData) = <<<<>>, <<>>>>

FameMet ==
    ~evalInput.verifReq.aliveFame.checkThis
        \/ evalInput.resp.fame >= evalInput.verifReq.aliveFame.minFame

RankMet ==
    ~evalInput.verifReq.rank.checkThis \/ evalInput.resp.rank >= evalInput.verifReq.rank.minRank

LastSeenMet ==
    ~evalInput.verifReq.lastSeen.mustBeHidden \/ evalInput.resp.lastSeen = "hidden"

\* C23: with the rank check on and the rank below minRank, the guild check off,
\* every other enabled requirement met and a manual verification channel, the
\* result is MANUAL with the single manual issue "Rank Too Low" and no fatal
\* and no try-again issue.
C23_RankTooLowIsManual ==
    (/\ Returned
     /\ evalInput.verifReq.rank.checkThis
     /\ evalInput.resp.rank < evalInput.verifReq.rank.minRank
     /\ ~evalInput.verifReq.guild.checkThis
     /\ LastSeenMet /\ FameMet /\ DetailBlocksMet
     /\ evalInput.hasManualChannel) =>
        /\ evalResult.conclusion = "MANUAL"
        /\ Len(evalResult.manualIssues) = 1
        /\ evalResult.manualIssues[1].key = "Rank Too Low"
        /\ evalResult.fatalIssues = <<>>
        /\ evalResult.taIssues = <<>>

\* Rank 5 against minRank 10 was evaluated with the guild check off, the fame
\* check on and met, and the graveyard and exaltation checks on and met.
C23_Witness ==
    /\ Returned
    /\ evalInput.verifReq.rank.checkThis
    /\ evalInput.resp.rank = 5 /\ evalInput.verifReq.rank.minRank = 10
    /\ ~evalInput.verifReq.guild.checkThis
    /\ evalInput.verifReq.aliveFame.checkThis
    /\ evalInput.verifReq.graveyardSummary.checkThis
    /\ evalInput.verifReq.exaltations.checkThis
    /\ LastSeenMet /\ FameMet /\ DetailBlocksMet
    /\ evalInput.hasManualChannel
    /\ evalResult.conclusion = "MANUAL"

\* C24: with the last-seen location required hidden but visible and every
\* other requirement passing, the result is TRY_AGAIN with a try-again issue
\* and no manual and no fatal issue.
C24_VisibleLastSeenIsTryAgain ==
    (/\ Returned
     /\ evalInput.verifReq.lastSeen.mustBeHidden
     /\ evalInput.resp.lastSeen # "hidden"
     /\ GuildFatal(evalInput.verifReq, evalInput.resp) = <<>>
     /\ RankMet /\ FameMet /\ DetailBlocksMet) =>
        /\ evalResult.conclusion = "TRY_AGAIN"
        /\ evalResult.taIssues # <<>>
        /\ evalResult.manualIssues = <<>>
        /\ evalResult.fatalIssues = <<>>

\* A visible last-seen location was evaluated with the guild name, rank, fame,
\* character, graveyard and exaltation checks all on and met.
C24_Witness ==
    /\ Returned
    /\ evalInput.verifReq.lastSeen.mustBeHidden
    /\ evalInput.resp.lastSeen = "visible"
    /\ evalInput.verifReq.guild.checkThis
    /\ GuildFatal(evalInput.verifReq, evalInput.resp) = <<>>
    /\ evalInput.verifReq.rank.checkThis
    /\ evalInput.verifReq.aliveFame.checkThis
    /\ evalInput.verifReq.characters.checkThis
    /\ evalInput.verifReq.graveyardSummary.checkThis
    /\ evalInput.verifReq.exaltations.checkThis
    /\ RankMet /\ FameMet /\ DetailBlocksMet
    /\ evalResult.conclusion = "TRY_AGAIN"
    /\ Len(evalResult.taIssues) = 1

-----------------------------------------------------------------------------
(* The handoff to manual review.                                           *)

\* A consent prompt of the member for the section closed by Manual Verify in
\* this step.
AcceptedNow(m, sec) ==
    /\ PromptsOf(sessions', m, sec) < PromptsOf(sessions, m, sec)
    /\ \/ /\ lastEnded'.member = m /\ lastEnded'.section = sec
          /\ lastEnded'.outcome = "MANUAL_ACCEPTED"
       \/ \E new \in DOMAIN sessions' :
             /\ SteppedTo(new)
             /\ new.member = m /\ new.section = sec
             /\ new.outcome = "MANUAL_ACCEPTED"

\* C25: for every member and section, (1) a step in which the member accepts
\* manual review at the consent prompt posts a review message to the manual
\* verification channel, which the session then has left to store; (2) a step
\* that stores an entry stores it for a review message posted before the
\* step, leaves exactly one entry for the member and the section, and (3)
\* leaves the storing session over unless another of its callbacks still
\* runs: it waits for nothing a moderator does.
C25_AcceptStoresTheOneEntry ==
    [][\A m \in Members, sec \in Sections :
          LET posted == PostedOf(sessions, m, sec)
              postedAfter == PostedOf(sessions', m, sec)
              written == EntriesOf(m, sec)' \ EntriesOf(m, sec)
          IN /\ AcceptedNow(m, sec) =>
                   /\ postedAfter > posted
                   /\ queueMsgs' \ queueMsgs # {}
                   /\ \A ses \in DOMAIN sessions', k \in Slots :
                         (SteppedTo(ses) /\ ses.h[k].pc = "posted") =>
                             ses.h[k].msgId \in queueMsgs'
             /\ written # {} =>
                   /\ postedAfter < posted
                   /\ \A e \in written : e.manualVerifyMsgId \in queueMsgs
                   /\ Cardinality(EntriesOf(m, sec)') = 1
                   /\ \A new \in DOMAIN sessions' :
                         (SteppedTo(new) /\ new.member = m /\ new.section = sec) =>
                             /\ new.pc = "done"
                             /\ \E k \in Slots : new.h[k].pc # "idle"]_vars

ExaltationUnavailable ==
    evalInput.verifReq.exaltations.checkThis /\ ~evalInput.exaltData.ok

GraveyardUnavailable ==
    /\ evalInput.verifReq.graveyardSummary.checkThis
    /\ ~evalInput.verifReq.graveyardSummary.useBotCompletions
    /\ ~evalInput.gyHist.ok

\* C26: when the evaluation gets past the guild block, an enabled exaltation
\* check whose data is unavailable adds exactly one try-again issue
\* ("Exaltation Information Private") and no exaltation manual issue, and an
\* enabled graveyard check in external-history mode whose summary is
\* unavailable adds exactly one try-again issue ("Graveyard History Private")
\* and no dungeon-completion manual issue; in either case no returned
\* conclusion is PASS or MANUAL.
C26_UnavailableIsTryAgain ==
    /\ (PastGuild /\ ExaltationUnavailable) =>
          /\ Cardinality(TaWith("Exaltation Information Private")) = 1
          /\ ManualWith("Exaltation Requirement Not Satisfied") = {}
    /\ (PastGuild /\ GraveyardUnavailable) =>
          /\ Cardinality(TaWith("Graveyard History Private")) = 1
          /\ ManualWith("Dungeon Completion Requirement Not Fulfilled") = {}
    /\ (Returned /\ (ExaltationUnavailable \/ GraveyardUnavailable)) =>
          evalResult.conclusion \notin {"PASS", "MANUAL"}

\* Both sources were unavailable for enabled checks, next to a rank that is
\* too low, and TRY_AGAIN was returned with the two try-again issues.
C26_Witness ==
    /\ PastGuild
    /\ ExaltationUnavailable
    /\ GraveyardUnavailable
    /\ ~RankMet
    /\ LastSeenMet
    /\ evalResult.conclusion = "TRY_AGAIN"
    /\ Len(evalResult.taIssues) = 2

\* The completions of dungeon d logged for the member in this guild, 0 when
\* none is logged.
LoggedFor(d) == IF d \in DOMAIN evalInput.loggedInfo THEN evalInput.loggedInfo[d] ELSE 0

\* C27: with the graveyard check on in logged-counters mode, the result holds
\* exactly one manual issue "Dungeon Completion Requirement Not Fulfilled" if
\* some configured dungeon requires more completions than are logged for it
\* (none logged counting as zero), and no such issue otherwise.
C27_LoggedCountersDecide ==
    LET completionsNeeded == evalInput.verifReq.graveyardSummary.botCompletions
        unmet == \E d \in DOMAIN completionsNeeded : completionsNeeded[d] > LoggedFor(d)
        raised == ManualWith("Dungeon Completion Requirement Not Fulfilled")
    IN (/\ PastGuild
        /\ evalInput.verifReq.graveyardSummary.checkThis
        /\ evalInput.verifReq.graveyardSummary.useBotCompletions) =>
            Cardinality(raised) = (IF unmet THEN 1 ELSE 0)

\* The total the graveyard summary reports for the achievement of a target, 0
\* when the summary does not list the achievement.
TotalFor(gyStat) ==
    LET gyHistKey == DISPLAY_TO_GY_HIST[gyStat.key]
    IN IF gyHistKey \in DOMAIN evalInput.gyHist.properties
       THEN evalInput.gyHist.properties[gyHistKey] ELSE 0

\* C28: with the graveyard check on in external-history mode and the summary
\* available, the result holds exactly one manual issue "Dungeon Completion
\* Requirement Not Fulfilled" if some configured target requires more than
\* the total reported for its achievement (an achievement the summary does
\* not list counting as zero), and no such issue otherwise; a required count
\* of 0 is always met.
C28_ReportedTotalsDecide ==
    LET targets == evalInput.verifReq.graveyardSummary.realmEyeCompletions
        unmet == \E i \in DOMAIN targets :
                     /\ targets[i].key \in DOMAIN DISPLAY_TO_GY_HIST
                     /\ targets[i].value > TotalFor(targets[i])
        raised == ManualWith("Dungeon Completion Requirement Not Fulfilled")
    IN (/\ PastGuild
        /\ evalInput.verifReq.graveyardSummary.checkThis
        /\ ~evalInput.verifReq.graveyardSummary.useBotCompletions
        /\ evalInput.gyHist.ok) =>
            Cardinality(raised) = (IF unmet THEN 1 ELSE 0)

\* The ordering Founder > Leader > Officer > Member > Initiate, written out.
RankHeight ==
    [r \in {"Founder", "Leader", "Officer", "Member", "Initiate"} |->
        CASE r = "Founder" -> 5
          [] r = "Leader" -> 4
          [] r = "Officer" -> 3
          [] r = "Member" -> 2
          [] r = "Initiate" -> 1]

\* actual is the floor itself, or both are ranks of the ordering and actual is
\* not below the floor.
AtLeastRank(minNeeded, actual) ==
    \/ minNeeded = actual
    \/ /\ minNeeded \in DOMAIN RankHeight
       /\ actual \in DOMAIN RankHeight
       /\ RankHeight[actual] >= RankHeight[minNeeded]

\* The guild-rank check of the input is reached: the guild check and the rank
\* check are on and the guild name, if checked, is the required one.
GuildRankChecked ==
    /\ Returned
    /\ evalInput.verifReq.guild.checkThis
    /\ evalInput.verifReq.guild.guildRank.checkThis
    /\ ~GuildNameMismatch

\* C29: isValidGuildRank(minNeeded, actual) is true exactly when actual is at
\* or above minNeeded in Founder > Leader > Officer > Member > Initiate, equal
\* ranks included (false when actual is below the floor, or differs from the
\* floor and one of them is no rank of the ordering).  The at-least mode of
\* the guild-rank check passes exactly then, the exact mode exactly when the
\* two ranks are equal, and a failed rank check of either mode returns FAIL
\* with one fatal issue and nothing else evaluated.
C29_GuildRankOrdering ==
    LET guildRank == evalInput.verifReq.guild.guildRank
        actual == evalInput.resp.guildRank
        passes == IF guildRank.exact THEN guildRank.minRank = actual
                  ELSE AtLeastRank(guildRank.minRank, actual)
    IN GuildRankChecked =>
          /\ isValidGuildRank(guildRank.minRank, actual) <=> AtLeastRank(guildRank.minRank, actual)
          /\ passes => evalResult.fatalIssues = <<>>
          /\ ~passes =>
                /\ evalResult.conclusion = "FAIL"
                /\ Len(evalResult.fatalIssues) = 1
                /\ evalResult.fatalIssues[1].key =
                        (IF guildRank.exact THEN "Not In Correct Guild" ELSE "Invalid Guild Rank")
                /\ evalResult.manualIssues = <<>>

\* A Leader was checked against the floor Officer in at-least mode and passed.
C29_Witness ==
    /\ GuildRankChecked
    /\ ~evalInput.verifReq.guild.guildRank.exact
    /\ evalInput.verifReq.guild.guildRank.minRank = "Officer"
    /\ evalInput.resp.guildRank = "Leader"
    /\ evalResult.fatalIssues = <<>>

\* A Member was checked against the floor Officer in at-least mode and failed.
C29_WitnessBelow ==
    /\ GuildRankChecked
    /\ ~evalInput.verifReq.guild.guildRank.exact
    /\ evalInput.verifReq.guild.guildRank.minRank = "Officer"
    /\ evalInput.resp.guildRank = "Member"
    /\ evalResult.conclusion = "FAIL"

\* A Leader was checked against the rank Officer in exact mode and failed.
C29_WitnessExact ==
    /\ GuildRankChecked
    /\ evalInput.verifReq.guild.guildRank.exact
    /\ evalInput.verifReq.guild.guildRank.minRank = "Officer"
    /\ evalInput.resp.guildRank = "Leader"
    /\ evalResult.conclusion = "FAIL"

\* The policy branches that read the graveyard summary: the character check
\* with past deaths, and the graveyard check in external-history mode.
GraveyardBranchActive ==
    \/ evalInput.verifReq.characters.checkThis /\ evalInput.verifReq.characters.checkPastDeaths
    \/ /\ evalInput.verifReq.graveyardSummary.checkThis
       /\ ~evalInput.verifReq.graveyardSummary.useBotCompletions

\* C30: a returned evaluation has asked for the graveyard summary only if a
\* branch that reads it is active, for the exaltation data only if the
\* exaltation check is on, and for the logged counters only if the graveyard
\* check is on in logged-counters mode; with all of these off it has made no
\* lookup.
C30_LookupsOnlyWhenActive ==
    Returned =>
        /\ "getGraveyardSummary" \in evalResult.lookups => GraveyardBranchActive
        /\ "getExaltation" \in evalResult.lookups => evalInput.verifReq.exaltations.checkThis
        /\ "getUserDoc" \in evalResult.lookups =>
                /\ evalInput.verifReq.graveyardSummary.checkThis
                /\ evalInput.verifReq.graveyardSummary.useBotCompletions

-----------------------------------------------------------------------------
(* The character block without the graveyard summary (SpecDetail).         *)

\* The character check is on with checkPastDeaths and the summary could not
\* be fetched.
PastDeathsUnavailable ==
    /\ evalInput.verifReq.characters.checkThis
    /\ evalInput.verifReq.characters.checkPastDeaths
    /\ ~evalInput.gyHist.ok

\* The input with checkPastDeaths switched off.
PastDeathsOff == [evalInput EXCEPT !.verifReq.characters.checkPastDeaths = FALSE]

\* The manual issues of a result with the key of the character block.
StatsIssuesOf(result) ==
    SelectSeq(result.manualIssues, LAMBDA x : x.key = "Stats Requirement Not Fulfilled")

\* C31: when the character check and checkPastDeaths are on and the graveyard
\* summary is unavailable, the evaluation counts the live characters only: the
\* counts left are those of the live loop on the needed counts, the stats
\* issue and every other issue and the conclusion are the ones of the same
\* evaluation with checkPastDeaths off, and a try-again issue for the private
\* graveyard history appears only when the graveyard check itself asks for
\* the external history.
C31_UnavailableSummaryIsLiveOnly ==
    (PastGuild /\ PastDeathsUnavailable) =>
        /\ RemainingStats(evalInput.verifReq, evalInput.resp, evalInput.gyHist)
              = ApplyCharacters(evalInput.verifReq.characters.statsNeeded,
                                evalInput.resp.characters)
        /\ StatsIssuesOf(evalResult) = StatsIssuesOf(checkRequirements(PastDeathsOff))
        /\ evalResult.manualIssues = checkRequirements(PastDeathsOff).manualIssues
        /\ evalResult.taIssues = checkRequirements(PastDeathsOff).taIssues
        /\ evalResult.conclusion = checkRequirements(PastDeathsOff).conclusion
        /\ TaWith("Graveyard History Private") # {} => GraveyardUnavailable

\* needed = [1,0,0,2,0,...] with past deaths asked for was evaluated without
\* a summary against live characters <<2, unknown>>: the tier-2 character is
\* counted for tier 0, two of tier 3 are left and no try-again issue is raised.
C31_Witness ==
    /\ PastGuild
    /\ PastDeathsUnavailable
    /\ ~evalInput.verifReq.graveyardSummary.checkThis
    /\ evalInput.resp.characters = <<2, -1>>
    /\ Len(StatsIssuesOf(evalResult)) = 1
    /\ StatsIssuesOf(evalResult)[1].detail = NeededAt(3, 2)
    /\ TaWith("Graveyard History Private") = {}


-----------------------------------------------------------------------------
(* The tier match of the character block (SpecMatch).                      *)

\* The required slots: slot <<t, n>> is the n-th character of tier t needed.
SlotsOf(needed) ==
    LET most == CHOOSE x \in {needed[i] : i \in DOMAIN needed} :
                    \A i \in DOMAIN needed : needed[i] <= x
    IN {s \in (0..(NUMBER_OF_STATS - 1)) \X (1..most) : s[2] <= needed[s[1] + 1]}

\* Distinct live characters can be assigned to all the slots, every slot of
\* tier t getting a character of tier t or more.
Assignable(needed, live) ==
    LET slots == SlotsOf(needed)
    IN /\ Cardinality(slots) <= Len(live)
       /\ \E f \in [slots -> DOMAIN live] :
             /\ \A s1, s2 \in slots : s1 # s2 => f[s1] # f[s2]
             /\ \A s \in slots : live[f[s]] >= s[1]

\* The orders the characters of the snapshot can appear in.
OrdersOf(characters) ==
    {[i \in DOMAIN characters |-> characters[p[i]]] :
        p \in {q \in [DOMAIN characters -> DOMAIN characters] :
                  \A i, j \in DOMAIN characters : i # j => q[i] # q[j]}}

\* C37: with checkPastDeaths off, the stats issue is raised exactly when the
\* live characters cannot be assigned, one each, to the required slots with
\* every slot of tier t filled by a character of tier t or more; and the
\* issue with the counts it shows is the same for every order in which the
\* characters appear in the snapshot.
C37_GreedyMatchIsOptimal ==
    LET needed == evalInput.verifReq.characters.statsNeeded
        live == LiveCharacters(evalInput.resp)
    IN (/\ PastGuild
        /\ evalInput.verifReq.characters.checkThis
        /\ ~evalInput.verifReq.characters.checkPastDeaths) =>
            /\ StatsIssuesOf(evalResult) # <<>> <=> ~Assignable(needed, live)
            /\ Len(StatsIssuesOf(evalResult)) <= 1
            /\ \A c \in OrdersOf(evalInput.resp.characters) :
                  /\ StatsIssuesOf(checkRequirements([evalInput EXCEPT !.resp.characters = c]))
                        = StatsIssuesOf(evalResult)
                  /\ ApplyCharacters(needed, c)
                        = ApplyCharacters(needed, evalInput.resp.characters)

\* needed = [1,1,0,...] was evaluated against live characters <<2, 0>>: the
\* tier-2 character goes to tier 1, the tier-0 one to tier 0, no issue.
C37_Witness ==
    /\ PastGuild
    /\ evalInput.verifReq.characters.checkThis
    /\ ~evalInput.verifReq.characters.checkPastDeaths
    /\ evalInput.verifReq.characters.statsNeeded = <<1, 1, 0, 0, 0, 0, 0, 0>>
    /\ evalInput.resp.characters = <<2, 0>>
    /\ StatsIssuesOf(evalResult) = <<>>

\* needed = [0,1,2,...] was evaluated against live characters <<1, 3, 1>>:
\* one of tier 2 cannot be filled and the issue shows [0,0,1,...].
C37_WitnessShort ==
    /\ PastGuild
    /\ ~evalInput.verifReq.characters.checkPastDeaths
    /\ evalInput.verifReq.characters.statsNeeded = <<0, 1, 2, 0, 0, 0, 0, 0>>
    /\ evalInput.resp.characters = <<1, 3, 1>>
    /\ Len(StatsIssuesOf(evalResult)) = 1
    /\ StatsIssuesOf(evalResult)[1].detail = NeededAt(2, 1)


\* k characters of tier t.
Repeat(t, k) == [i \in 1..k |-> t]

\* The input with the dead characters of the summary turned into that many
\* more live characters of the same tier, and the summary emptied.
DeadAsLive ==
    LET statInfo == evalInput.gyHist.statsCharacters[1]
        t == CHOOSE i \in 0..NUMBER_OF_STATS : statInfo[i + 1] > 0
    IN [evalInput EXCEPT !.resp.characters = @ \o Repeat(t, statInfo[t + 1]),
                         !.gyHist = GyEmpty]

\* C38: with checkPastDeaths on and a summary that records k dead characters
\* of one tier, the stats issue (the unmet tiers with their positive
\* shortfalls) is the one of the evaluation with k more live characters of
\* that tier instead.
C38_PastDeathsCountLikeLive ==
    (/\ PastGuild
     /\ evalInput.verifReq.characters.checkThis
     /\ evalInput.verifReq.characters.checkPastDeaths
     /\ evalInput.gyHist.ok
     /\ evalInput.gyHist.statsCharacters # <<>>) =>
        StatsIssuesOf(evalResult) = StatsIssuesOf(checkRequirements(DeadAsLive))


-----------------------------------------------------------------------------
(* The name typed in a main-scope session (Spec).                          *)

\* name is registered in the identity store, and under other ids only.
OwnedByOthersOnly(m, name) ==
    /\ \E o \in Members : o # m /\ name \in idNames[o]
    /\ name \notin idNames[m]

\* C39: when the member types a name that is registered only under other
\* Discord ids, the session ends there: nothing of it is left, no code was
\* generated, no role is granted and no name mapping changes; when the name
\* is registered to the member or to nobody, the session waits for the proof
\* of that name with a generated code.
C39_TypedNameOfOthersEndsSession ==
    [][\A ses \in DOMAIN sessions, name \in Names :
          TypeName(ses, name) =>
              /\ Stepped(ses)
              /\ roles' = roles
              /\ idNames' = idNames
              /\ manualVerificationEntries' = manualVerificationEntries
              /\ IF OwnedByOthersOnly(ses.member, name)
                 THEN /\ \A new \in DOMAIN sessions' : ~SteppedTo(new)
                      /\ ses.code = 0
                      /\ lastEnded'.member = ses.member
                      /\ lastEnded'.outcome = "FAIL"
                 ELSE \E new \in DOMAIN sessions' :
                          /\ SteppedTo(new)
                          /\ new.pc = "awaitProof"
                          /\ new.nameToVerify = name
                          /\ new.code # 0
                          /\ new.collector = "active"]_vars

\* A main-scope session has just ended in failure without any profile check:
\* the member typed "Bob", which is registered under the other member only.
C39_Witness ==
    /\ lastEnded.member = "u1"
    /\ lastEnded.section = "MAIN"
    /\ lastEnded.outcome = "FAIL"
    /\ lastCheck = NoCheck
    /\ "Bob" \in idNames["u2"]
    /\ "Bob" \notin idNames["u1"]
    /\ roles = {}

\* A session waits for the proof of a typed name that nobody has registered.
C39_WitnessFree ==
    \E ses \in DOMAIN sessions :
        /\ ses.section = "MAIN"
        /\ ses.pc = "awaitProof"
        /\ ses.nameToVerify = "Alice"
        /\ \A m \in Members : "Alice" \notin idNames[m]

-----------------------------------------------------------------------------
(* The end of a main-scope session and the callbacks still running (Spec). *)

\* The session was canceled, has failed, or its collector ran out of time.
Terminal(ses) == ses.section = "MAIN" /\ ses.outcome \in {"CANCELED", "FAIL", "TIMED_OUT"}

\* C36: a step of a main-scope session that was canceled, has failed or has
\* passed its deadline grants no role, persists no name and starts no
\* manual-review prompt.
C36_TerminalIsAbsorbing ==
    [][\A ses \in DOMAIN sessions :
          (Stepped(ses) /\ Terminal(ses)) =>
              /\ roles' = roles
              /\ idNames' = idNames
              /\ \A new \in DOMAIN sessions' :
                    SteppedTo(new) => Prompts(new) \subseteq Prompts(ses)]_vars


-----------------------------------------------------------------------------
(* LoggerManager: the counters of one member's user document.  A log call  *)
(* reads the user document, then sends one updateOne; other calls may run  *)
(* between the two.                                                        *)

\* Total amount one run logs, and log calls in flight together.
MaxLogged == 4
MaxLogCalls == 2

LogAmounts == {1, 2}

SumTotals == SumOver(loggedTotal, LogKeys)

\* The calls now in flight for which a read or an update is still to come.
InFlight == BagCardinality(logCalls)

\* A call of internalUpdateLoggedInfo(member, id, amt, userDoc) before its
\* update: some tells whether the user document it goes by has a record of
\* key id, then is the amount of the logPoints call that follows (logKeyUse).
\* pc "read": the user document is still to be fetched.
CallOf(pc, id, amt, some, then) ==
    [pc |-> pc, id |-> id, amt |-> amt, some |-> some, then |-> then]

\* line 82: userDocToUse.loggedInfo.some(x => x.key === id)
HasRecord(info, id) == \E i \in DOMAIN info : info[i].key = id

\* A call is made: the amounts it is to log are noted and it is in flight.
Begin(call, logs) ==
    /\ InFlight < MaxLogCalls
    /\ SumTotals + SumOver(logs, DOMAIN logs) <= MaxLogged
    /\ logCalls' = logCalls (+) SetToBag({call})
    /\ loggedTotal' = [k \in LogKeys |-> loggedTotal[k] + (IF k \in DOMAIN logs THEN logs[k] ELSE 0)]
    /\ UNCHANGED loggedInfoDb

\* Every variable of the verification manager and of the configuration
\* command stays as it is.
LoggerOnly ==
    UNCHANGED <<evalInput, evalResult, lastCheck, sessions, lastEnded, manualVerificationEntries,
                queueMsgs, nextMsgId, roles, idNames, guildVars, acks, notices, lastAck,
                configVars>>

\* lines 113-136: logKeyUse up to the await of the two documents.
logKeyUse(keyId, amt) ==
    /\ keyId \in LogKeyIds
    /\ amt \in LogAmounts
    /\ LET dbKeyId == KeyUseKey(keyId)
           pts == IF keyId \in DOMAIN reactionPoints THEN reactionPoints[keyId] * amt ELSE 0
       IN Begin(CallOf("read", dbKeyId, amt, FALSE, pts),
                IF pts > 0 THEN (dbKeyId :> amt) @@ (PointsKey :> pts) ELSE (dbKeyId :> amt))
    /\ LoggerOnly

\* lines 143-150: logDungeonRun up to the fetch of the user document; a
\* dungeon that cannot be logged ends the call.
logDungeonRun(dungeonId, completed, amt) ==
    /\ dungeonId \in LogDungeonIds
    /\ amt \in LogAmounts
    /\ LET dgnId == getDungeonIdToLog(dungeonId)
       IN IF dgnId = "null"
          THEN UNCHANGED loggerVars
          ELSE Begin(CallOf("read", DungeonRunKey(dgnId, completed), amt, FALSE, 0),
                     DungeonRunKey(dgnId, completed) :> amt)
    /\ LoggerOnly

\* lines 159-166
logDungeonLead(dungeonId, result, amt) ==
    /\ dungeonId \in LogDungeonIds
    /\ result \in {"Failed"}
    /\ amt \in LogAmounts
    /\ LET dgnId == getDungeonIdToLog(dungeonId)
       IN IF dgnId = "null"
          THEN UNCHANGED loggerVars
          ELSE Begin(CallOf("read", DungeonLeadKey(dgnId, result), amt, FALSE, 0),
                     DungeonLeadKey(dgnId, result) :> amt)
    /\ LoggerOnly

\* lines 173-176
logPoints(points) ==
    /\ points \in LogAmounts
    /\ Begin(CallOf("read", PointsKey, points, FALSE, 0), PointsKey :> points)
    /\ LoggerOnly

\* lines 76 and 122-125: getOrCreateUserDoc returns the document as stored now.
getOrCreateUserDoc(call) ==
    /\ call.pc = "read"
    /\ logCalls' = (logCalls (-) SetToBag({call}))
                     (+) SetToBag({[call EXCEPT !.pc = "update",
                                                !.some = HasRecord(loggedInfoDb, call.id)]})
    /\ UNCHANGED <<loggedInfoDb, loggedTotal>>
    /\ LoggerOnly

\* $inc of "loggedInfo.$.value" under the filter "loggedInfo.key": id: the
\* first record of that key is raised; without such a record nothing matches.
IncFirst(info, id, amt) ==
    IF ~HasRecord(info, id) THEN info
    ELSE LET i == CHOOSE x \in DOMAIN info :
                      info[x].key = id /\ \A y \in DOMAIN info : info[y].key = id => x <= y
         IN [info EXCEPT ![i].value = @ + amt]

\* lines 80-104: the update the call sends, chosen by what its read saw.
UpdatedInfo(info, call) ==
    IF call.some THEN IncFirst(info, call.id, call.amt)
    ELSE Append(info, [key |-> call.id, value |-> call.amt])

\* line 104, and lines 129-135 for logKeyUse: the update is applied, and a key
\* with reaction points is followed by logPoints.
updateOne(call) ==
    /\ call.pc = "update"
    /\ loggedInfoDb' = UpdatedInfo(loggedInfoDb, call)
    /\ logCalls' = (logCalls (-) SetToBag({call}))
                     (+) (IF call.then > 0
                          THEN SetToBag({CallOf("read", PointsKey, call.then, FALSE, 0)})
                          ELSE EmptyBag)
    /\ UNCHANGED loggedTotal
    /\ LoggerOnly

\* lines 183-189: the value of the first points record, 0 without one.
getPoints(info) ==
    IF ~HasRecord(info, PointsKey) THEN 0
    ELSE info[CHOOSE x \in DOMAIN info :
                  info[x].key = PointsKey
                  /\ \A y \in DOMAIN info : info[y].key = PointsKey => x <= y].value

\* lines 198-210: per dungeon id, the value of the last record "R:guild:id:1".
getCompletedDungeons(info, guildId) ==
    LET data == SelectSeq(info, LAMBDA x : x.key[1] = "R" /\ x.key[2] = guildId
                                             /\ x.key[Len(x.key)] = "1")
    IN [dgnId \in {data[i].key[3] : i \in DOMAIN data} |->
            data[CHOOSE i \in DOMAIN data :
                     data[i].key[3] = dgnId
                     /\ \A j \in DOMAIN data : data[j].key[3] = dgnId => j <= i].value]

\* Number.parseInt(s, 10) of the outcome part of a key.
parseInt(s) == IF s = "1" THEN 1 ELSE IF s = "0" THEN 0 ELSE -1

\* lines 331-340: a record "R:..." of a known dungeon gets past
\* `if (!dgnName) break;` and `if (!result) break;`.
RunRecordCounted(rec) ==
    /\ rec.key[1] = "R"
    /\ rec.key[3] \in KnownDungeons
    /\ parseInt(rec.key[4]) # 0

\* lines 342-362: the record is added to failed when result is 0, else to
\* completed.
RECURSIVE dungeonRuns(_, _, _)
dungeonRuns(info, gId, dgn) ==
    IF info = <<>> THEN [completed |-> 0, failed |-> 0]
    ELSE LET rec == info[Len(info)]
             sofar == dungeonRuns(SubSeq(info, 1, Len(info) - 1), gId, dgn)
         IN IF RunRecordCounted(rec) /\ rec.key[2] = gId /\ rec.key[3] = dgn
            THEN IF parseInt(rec.key[4]) = 0
                 THEN [sofar EXCEPT !.failed = @ + rec.value]
                 ELSE [sofar EXCEPT !.completed = @ + rec.value]
            ELSE sofar

NextLogger ==
    \/ \E keyId \in LogKeyIds, amt \in LogAmounts : logKeyUse(keyId, amt)
    \/ \E d \in LogDungeonIds, c \in BOOLEAN, amt \in LogAmounts : logDungeonRun(d, c, amt)
    \/ \E d \in LogDungeonIds, amt \in LogAmounts : logDungeonLead(d, "Failed", amt)
    \/ \E points \in LogAmounts : logPoints(points)
    \/ \E call \in DOMAIN logCalls : getOrCreateUserDoc(call)
    \/ \E call \in DOMAIN logCalls : updateOne(call)

\* The member's user document is new and nothing else happens in the guild.
InitLogger ==
    /\ evalInput = NoRequirementsInput
    /\ evalResult = NoResult
    /\ lastCheck = NoCheck
    /\ WorldIdle

SpecLogger == InitLogger /\ [][NextLogger]_vars

-----------------------------------------------------------------------------
(* The counters of the logger (SpecLogger).                                *)

\* The records of key k in the stored loggedInfo.
RecordsOf(k) == {i \in DOMAIN loggedInfoDb : loggedInfoDb[i].key = k}

\* What the records of key k add up to.
StoredTotal(k) == SumOver([i \in RecordsOf(k) |-> loggedInfoDb[i].value], RecordsOf(k))

\* C32: the stored loggedInfo never holds two records of one key, and once
\* no log call is in flight the record of every key holds the sum of the
\* amounts logged under it, so getPoints returns all the points logged and
\* getCompletedDungeons all the completions logged.
C32_AppendOrIncrement ==
    /\ \A k \in LogKeys : Cardinality(RecordsOf(k)) <= 1
    /\ logCalls = EmptyBag =>
          /\ \A k \in LogKeys : StoredTotal(k) = loggedTotal[k]
          /\ getPoints(loggedInfoDb) = loggedTotal[PointsKey]
          /\ LET done == getCompletedDungeons(loggedInfoDb, GuildId)
                 logged == loggedTotal[DungeonRunKey("SHATTERS", TRUE)]
             IN IF logged = 0 THEN "SHATTERS" \notin DOMAIN done
                ELSE "SHATTERS" \in DOMAIN done /\ done["SHATTERS"] = logged

\* C33: for a known dungeon, getStatsWithDoc reports as completed what the
\* records "R:guild:dungeon:1" add up to and as failed what the records
\* "R:guild:dungeon:0" add up to; with no log call in flight the failed
\* count is the total logged with completed = false.
C33_StatsReportBothOutcomes ==
    LET runs == dungeonRuns(loggedInfoDb, GuildId, "SHATTERS")
    IN /\ runs.completed = StoredTotal(DungeonRunKey("SHATTERS", TRUE))
       /\ runs.failed = StoredTotal(DungeonRunKey("SHATTERS", FALSE))
       /\ logCalls = EmptyBag => runs.failed = loggedTotal[DungeonRunKey("SHATTERS", FALSE)]


-----------------------------------------------------------------------------
(* ConfigureReactionsImages: the command, its main menu and the two pages  *)
(* that edit a working copy of a list of the guild document.  The storage  *)
(* channel of manageImages exists; a name or emoji dialog that is canceled *)
(* leaves the page as it is, one that times out ends the flow like the     *)
(* page's own timeout.                                                     *)

\* part_003 lines 78-79
MAX_CUSTOM_REACTIONS == 30
MAX_CUSTOM_IMAGES == 40

\* Entries a list holds at most, users on a page together, and buttons
\* pressed by all users together, in the runs followed.
MaxEntries == 2
MaxEditors == 1
MaxPresses == 6

\* One more button can be pressed by user u.
Press(u) == SumOver([v \in ConfigUsers |-> flows[v].presses], ConfigUsers) < MaxPresses

Pressed(f) == [f EXCEPT !.presses = @ + 1]

EntryNames == {"a", "b"}
EmojiInfos == {"x", "y"}

\* line 814: what a selection index becomes when JavaScript computes n % 0.
NaN == -1

\* a % b as JavaScript computes it for a, b >= 0, and for NaN.
JsMod(a, b) == IF a = NaN \/ b = NaN \/ b = 0 THEN NaN ELSE a % b
JsPlus(a, b) == IF a = NaN \/ b = NaN THEN NaN ELSE a + b

Pages == {"manageImages", "manageReactions"}

\* The list of the guild document a page edits.
ListOf(page) == IF page = "manageImages" THEN "approvedCustomImages" ELSE "customReactions"
MaxOf(page) == IF page = "manageImages" THEN MAX_CUSTOM_IMAGES ELSE MAX_CUSTOM_REACTIONS

\* lines 286 and 545: list.slice() copies the array, not its entries: entry
\* i of the copy is the object that entry i of ctx.guildDoc's list is.  A
\* working-copy entry is [shared, obj]: shared is that position in
\* ctx.guildDoc's list, 0 for an entry made on the page.
Slice(list) == [i \in DOMAIN list |-> [shared |-> i, obj |-> list[i]]]

\* The entries as they are written to the database.
Objects(list) == [i \in DOMAIN list |-> list[i].obj]

\* The flow of user u is in the main menu with guild document doc.
InMainMenu(f, doc) ==
    [f EXCEPT !.pc = "mainMenu", !.guildDoc = doc, !.list = <<>>, !.idx = 0, !.entered = <<>>]

\* Every variable of the verification manager and of the logger stays as it is.
ConfigOnly ==
    UNCHANGED <<evalInput, evalResult, lastCheck, sessions, lastEnded, manualVerificationEntries,
                queueMsgs, nextMsgId, roles, idNames, guildVars, acks, notices, lastAck,
                loggerVars>>

\* lines 105-125: run.  With a user in ACTIVE_USERS the command is refused;
\* otherwise the main menu opens on the guild document as stored now.
run(u) ==
    /\ flows[u].pc \in {"none", "crashed"}
    /\ IF Cardinality(ACTIVE_USERS) >= 1
       THEN UNCHANGED flows
       ELSE flows' = [flows EXCEPT ![u] = InMainMenu(@, guildDocDb)]
    /\ UNCHANGED <<ACTIVE_USERS, guildDocDb>>
    /\ ConfigOnly

\* lines 875-880: dispose.
dispose(u) ==
    /\ flows' = [flows EXCEPT ![u] = [NoFlow EXCEPT !.presses = @ + flows[u].presses + 1]]
    /\ ACTIVE_USERS' = ACTIVE_USERS \ {u}
    /\ UNCHANGED guildDocDb

\* lines 132-199: the main menu; choice "none" is its timeout.
mainMenu(u, choice) ==
    /\ flows[u].pc = "mainMenu"
    /\ Press(u)
    /\ choice \in {"none", "exit", "reactions", "images"}
    /\ IF choice \in {"none", "exit"}
       THEN dispose(u)
       ELSE LET page == IF choice = "images" THEN "manageImages" ELSE "manageReactions"
            IN /\ Cardinality({v \in ConfigUsers : flows[v].pc \in Pages}) < MaxEditors
               /\ flows' = [flows EXCEPT ![u] = Pressed(
                                [@ EXCEPT !.pc = page,
                                          !.list = Slice(flows[u].guildDoc[ListOf(page)]),
                                          !.idx = 0,
                                          !.entered = flows[u].guildDoc[ListOf(page)]])]
               /\ UNCHANGED <<ACTIVE_USERS, guildDocDb>>
    /\ ConfigOnly

\* lines 354-357 and 733-736: Go Back opens the main menu on ctx.guildDoc.
GoBack(u) ==
    /\ flows[u].pc \in Pages
    /\ Press(u)
    /\ flows' = [flows EXCEPT ![u] = Pressed(InMainMenu(@, @.guildDoc))]
    /\ UNCHANGED <<ACTIVE_USERS, guildDocDb>>
    /\ ConfigOnly

\* lines 464-467 and 853-856, and the timeouts of lines 348-351 and 727-730.
Quit(u) ==
    /\ flows[u].pc \in Pages
    /\ Press(u)
    /\ dispose(u)
    /\ ConfigOnly

\* lines 358-432 and 737-811: an entry made on the page is pushed onto the
\* working copy.  The Add button is disabled on a full list.
Add(u, obj) ==
    /\ flows[u].pc \in Pages
    /\ Len(flows[u].list) + 1 <= MaxOf(flows[u].pc)
    /\ Len(flows[u].list) < MaxEntries
    /\ Press(u)
    /\ obj \in (IF flows[u].pc = "manageImages"
                THEN {[name |-> n, url |-> "url-2"] : n \in EntryNames}
                ELSE {[name |-> n, emojiInfo |-> e] : n \in EntryNames, e \in EmojiInfos})
    /\ flows' = [flows EXCEPT ![u] = Pressed([@ EXCEPT !.list = Append(@, [shared |-> 0,
                                                                          obj |-> obj])])]
    /\ UNCHANGED <<ACTIVE_USERS, guildDocDb>>
    /\ ConfigOnly

\* splice(idx, 1): the entry at idx goes; a start of NaN is taken as 0.
Splice(list, idx) ==
    LET at == IF idx = NaN THEN 0 ELSE idx
    IN [i \in 1..(Len(list) - 1) |-> IF i <= at THEN list[i] ELSE list[i + 1]]

\* lines 433-440 (manageImages) and 812-816 (manageReactions).
Remove(u) ==
    /\ flows[u].pc \in Pages
    /\ Len(flows[u].list) # 0
    /\ Press(u)
    /\ LET left == Splice(flows[u].list, flows[u].idx)
       IN flows' = [flows EXCEPT ![u] = Pressed(
                        [@ EXCEPT !.list = left,
                                  !.idx = IF flows[u].pc = "manageImages"
                                          THEN IF Len(left) = 0 THEN 0
                                               ELSE JsMod(@, Len(left))
                                          ELSE JsMod(@, Len(left))])]
    /\ UNCHANGED <<ACTIVE_USERS, guildDocDb>>
    /\ ConfigOnly

\* An assignment to a property of list[idx]: of the working copy's entry and,
\* when that entry is shared, of the entry of ctx.guildDoc's list that it is.
\* With idx NaN list[idx] is undefined, the assignment throws and the flow is
\* over without dispose.
Assign(u, field, value) ==
    LET f == flows[u]
        i == f.idx + 1
    IN IF f.idx = NaN
       THEN [f EXCEPT !.pc = "crashed", !.list = <<>>, !.idx = 0, !.entered = <<>>]
       ELSE LET s == f.list[i].shared
                edited == [f EXCEPT !.list[i].obj[field] = value]
            IN IF s = 0 THEN edited
               ELSE [edited EXCEPT !.guildDoc[ListOf(f.pc)][s][field] = value]

\* lines 441-454 and 831-843
ChangeName(u, name) ==
    /\ flows[u].pc \in Pages
    /\ Len(flows[u].list) # 0
    /\ name \in EntryNames
    /\ Press(u)
    /\ flows' = [flows EXCEPT ![u] = Pressed(Assign(u, "name", name))]
    /\ UNCHANGED <<ACTIVE_USERS, guildDocDb>>
    /\ ConfigOnly

\* lines 817-830
ChangeEmoji(u, emojiInfo) ==
    /\ flows[u].pc = "manageReactions"
    /\ Len(flows[u].list) # 0
    /\ emojiInfo \in EmojiInfos
    /\ Press(u)
    /\ flows' = [flows EXCEPT ![u] = Pressed(Assign(u, "emojiInfo", emojiInfo))]
    /\ UNCHANGED <<ACTIVE_USERS, guildDocDb>>
    /\ ConfigOnly

\* lines 468-471 and 857-860; the button is disabled on a list of one or none.
Up(u) ==
    /\ flows[u].pc \in Pages
    /\ Len(flows[u].list) > 1
    /\ Press(u)
    /\ flows' = [flows EXCEPT ![u] = Pressed(
                    [@ EXCEPT !.idx = JsMod(JsPlus(JsPlus(@, Len(flows[u].list)), -1),
                                            Len(flows[u].list))])]
    /\ UNCHANGED <<ACTIVE_USERS, guildDocDb>>
    /\ ConfigOnly

\* lines 472-476 and 861-865
Down(u) ==
    /\ flows[u].pc \in Pages
    /\ Len(flows[u].list) > 1
    /\ Press(u)
    /\ flows' = [flows EXCEPT ![u] = Pressed(
                    [@ EXCEPT !.idx = JsMod(JsPlus(@, 1), Len(flows[u].list))])]
    /\ UNCHANGED <<ACTIVE_USERS, guildDocDb>>
    /\ ConfigOnly

\* lines 455-463 and 844-852: the working copy is stored and ctx.guildDoc
\* becomes the document as stored after that.
Save(u) ==
    /\ flows[u].pc \in Pages
    /\ guildDocDb' = [guildDocDb EXCEPT ![ListOf(flows[u].pc)] = Objects(flows[u].list)]
    /\ Press(u)
    /\ flows' = [flows EXCEPT ![u] = Pressed(InMainMenu(@, guildDocDb'))]
    /\ UNCHANGED ACTIVE_USERS
    /\ ConfigOnly

NextConfig ==
    \/ \E u \in ConfigUsers : run(u)
    \/ \E u \in ConfigUsers, choice \in {"none", "exit", "reactions", "images"} : mainMenu(u, choice)
    \/ \E u \in ConfigUsers : GoBack(u)
    \/ \E u \in ConfigUsers : Quit(u)
    \/ \E u \in ConfigUsers, n \in EntryNames, e \in EmojiInfos \cup {"url-2"} :
            Add(u, IF e = "url-2" THEN [name |-> n, url |-> e] ELSE [name |-> n, emojiInfo |-> e])
    \/ \E u \in ConfigUsers : Remove(u)
    \/ \E u \in ConfigUsers, name \in EntryNames : ChangeName(u, name)
    \/ \E u \in ConfigUsers, emojiInfo \in EmojiInfos : ChangeEmoji(u, emojiInfo)
    \/ \E u \in ConfigUsers : Up(u)
    \/ \E u \in ConfigUsers : Down(u)
    \/ \E u \in ConfigUsers : Save(u)

\* Nobody has run the command, the guild document holds one image and one
\* reaction, and nothing else happens in the guild.
InitConfig ==
    /\ evalInput = NoRequirementsInput
    /\ evalResult = NoResult
    /\ lastCheck = NoCheck
    /\ WorldIdle

SpecConfig == InitConfig /\ [][NextConfig]_vars


-----------------------------------------------------------------------------
(* The configuration command (SpecConfig).                                 *)

\* The users now inside a flow of the command: in its menu or on a page.
InsideFlow == {u \in ConfigUsers : flows[u].pc \in {"mainMenu"} \cup Pages}

\* C34: at most one user of the guild is inside the flow of the command at
\* any time.
C34_OneUserPerGuild == Cardinality(InsideFlow) <= 1

\* C35: leaving a page with Go Back, Quit or a timeout changes nothing that
\* is stored, and after Go Back the list of the in-memory guild document is
\* the one it was when the page was entered.
C35_EditsOnlyOnSave ==
    [][\A u \in ConfigUsers :
          /\ (GoBack(u) \/ Quit(u)) => guildDocDb' = guildDocDb
          /\ GoBack(u) => flows'[u].guildDoc[ListOf(flows[u].pc)] = flows[u].entered]_vars

\* C40: on a page the selection index is 0 when the working copy is empty
\* and otherwise an index of an entry of it.
C40_SelectionIndexValid ==
    \A u \in ConfigUsers :
        flows[u].pc \in Pages =>
            IF Len(flows[u].list) = 0 THEN flows[u].idx = 0
            ELSE flows[u].idx \in 0..(Len(flows[u].list) - 1)
====
